---- MODULE Spec2Model ----
(***************************************************************************)
(* Model of the card-canvas engine of CollectionManager01:                 *)
(*   - LODManager (src/src/rendering/LODManager.ts): the texture cache,    *)
(*     request coalescing, failure memoisation and the preload pool;       *)
(*   - PixiStage (src/unnamed/part_004): the pointer state machine,        *)
(*     selection, card dragging and stacking, with the grid math of        *)
(*     Grid (src/unnamed/part_013) and the drag switch of Camera.          *)
(* JavaScript runs one task at a time: every action below is one task      *)
(* (an event handler, a timer callback or a load completion) together with *)
(* the promise continuations that run before the next task.                *)
(***************************************************************************)
EXTENDS Integers, Sequences, FiniteSets, TLC

(***************************************************************************)
(* Bounds of the model.                                                    *)
(***************************************************************************)
\* slugs the cache specification requests
NumSlugs == 3
\* getTexture calls that may wait on one slug at a time
MaxPending == 3
\* card names available to the preload specification
NumKeys == 22
\* preloadTextures calls whose loops may be running at the same time
MaxPreloads == 2

(***************************************************************************)
(* Program constants of LODManager.                                        *)
(***************************************************************************)
CONCURRENT_LOADS == 8
PRELOAD_BATCH_SIZE == 20

Min(a, b) == IF a < b THEN a ELSE b
Max(a, b) == IF a > b THEN a ELSE b

VARIABLES
    lod,              \* the LODManager singleton and the promises it handed out
    preloads,         \* the preloadTextures calls whose loops are still running
    failedSinceClear, \* history: slugs whose load failed since the last clearCache
    revealed,         \* cards of the list that culling passes have made visible
    stage,            \* the PixiStage: card sprites, selection, drag, box, stacks
    camera,           \* the Camera: drag paused, zoom, visible bounds, screen size
    pointer,          \* the pointing device: whether a button of it is held down,
                      \* and history: the card of its last right click and when
    lastOp,           \* history: the handler that ran last and its branch
    app               \* the application state of appReducer: decks and editor

lodVars == <<lod, preloads, failedSinceClear, revealed>>
stageVars == <<stage, camera, pointer, lastOp, app>>

\* every slug any specification uses
Slugs == 1 .. NumKeys

(***************************************************************************)
(* A string handed to getTexture is a card's display name or its slug;     *)
(* both normalise to the same slug.                                        *)
(***************************************************************************)
Keys(ids) == [form : {"name", "slug"}, id : ids]

\* cardNameToSlug: the display name and the slug of card n both give slug n
cardNameToSlug(key) == key.id

\* getTexture's first line: a string with '_' is taken as a slug as it is
SlugOfArgument(key) == IF key.form = "slug" THEN key.id ELSE cardNameToSlug(key)

(***************************************************************************)
(* lod.cache, lod.loadingPromises, lod.failedLoads: the manager's fields   *)
(*   (as the sets of slugs they hold).                                     *)
(* lod.assetLoads[s]: Assets.load calls in flight for slug s.              *)
(* lod.pending: getTexture calls that have not settled: the call that      *)
(*   started the load awaits it ("starter"), a call that found the slug in *)
(*   loadingPromises returned that promise ("coalesced"). owner is the     *)
(*   preload call whose activeLoads counter the call's finally() lowers,   *)
(*   0 when there is none; n numbers equal calls.                          *)
(* lod.settled: the getTexture calls that settled in the last task, with   *)
(*   what they settled to.                                                 *)
(***************************************************************************)
InitLod ==
    [cache           |-> {},
     loadingPromises |-> {},
     failedLoads     |-> {},
     assetLoads      |-> [s \in Slugs |-> 0],
     pending         |-> {},
     settled         |-> {}]

PendingOn(L, slug) == {r \in L.pending : r.slug = slug}

AddPending(L, slug, role, owner) ==
    LET same == {r \in L.pending :
                    r.slug = slug /\ r.role = role /\ r.owner = owner}
    IN  [L EXCEPT !.pending = @ \cup
            {[slug |-> slug, role |-> role, owner |-> owner,
              n |-> Cardinality(same) + 1]}]

\* getTexture with loadingPromises never consulted
getTextureNoCoalesce(L, slug, owner) ==
    IF slug \in L.failedLoads
    THEN [L EXCEPT !.settled = @ \cup
            {[slug |-> slug, role |-> "immediate", result |-> "placeholder"]}]
    ELSE IF slug \in L.cache
    THEN [L EXCEPT !.settled = @ \cup
            {[slug |-> slug, role |-> "immediate", result |-> "texture"]}]
    ELSE AddPending(
            [L EXCEPT !.assetLoads[slug] = @ + 1,
                      !.loadingPromises = @ \cup {slug}],
            slug, "starter", owner)

\* getTexture with failedLoads never consulted
getTextureNoMemo(L, slug, owner) ==
    IF slug \in L.cache
    THEN [L EXCEPT !.settled = @ \cup
            {[slug |-> slug, role |-> "immediate", result |-> "texture"]}]
    ELSE IF slug \in L.loadingPromises
    THEN AddPending(L, slug, "coalesced", owner)
    ELSE AddPending(
            [L EXCEPT !.assetLoads[slug] = @ + 1,
                      !.loadingPromises = @ \cup {slug}],
            slug, "starter", owner)

(***************************************************************************)
(* getTexture up to its await: a failed slug gives the placeholder, a      *)
(* cached slug its texture, a loading slug the promise in loadingPromises; *)
(* otherwise loadTexture calls Assets.load and the promise is recorded.    *)
(***************************************************************************)
getTexture(L, slug, owner) ==
    IF slug \in L.failedLoads
    THEN [L EXCEPT !.settled = @ \cup
            {[slug |-> slug, role |-> "immediate", result |-> "placeholder"]}]
    ELSE IF slug \in L.cache
    THEN [L EXCEPT !.settled = @ \cup
            {[slug |-> slug, role |-> "immediate", result |-> "texture"]}]
    ELSE IF slug \in L.loadingPromises
    THEN AddPending(L, slug, "coalesced", owner)
    ELSE AddPending(
            [L EXCEPT !.assetLoads[slug] = @ + 1,
                      !.loadingPromises = @ \cup {slug}],
            slug, "starter", owner)

(***************************************************************************)
(* A load settles. loadTexture's promise settles with it; the starter's    *)
(* continuation caches the texture, or records the failure and returns the *)
(* placeholder, and deletes the loadingPromises entry; a coalesced call    *)
(* settles as loadTexture's promise does, with the texture or with the     *)
(* error loadTexture rethrew.                                              *)
(***************************************************************************)
SettledBy(L, slug, ok) ==
    {[slug   |-> slug,
      role   |-> r.role,
      result |-> IF ok THEN "texture"
                 ELSE IF r.role = "starter" THEN "placeholder" ELSE "error"]
        : r \in PendingOn(L, slug)}

\* LoadSettles without the finally block's loadingPromises.delete
LoadSettlesKeepingPromise(L, slug, ok) ==
    [L EXCEPT !.assetLoads[slug] = @ - 1,
              !.cache = IF ok THEN @ \cup {slug} ELSE @,
              !.failedLoads = IF ok THEN @ ELSE @ \cup {slug},
              !.pending = @ \ PendingOn(L, slug),
              !.settled = SettledBy(L, slug, ok)]

LoadSettles(L, slug, ok) ==
    [L EXCEPT !.assetLoads[slug] = @ - 1,
              !.cache = IF ok THEN @ \cup {slug} ELSE @,
              !.failedLoads = IF ok THEN @ ELSE @ \cup {slug},
              !.loadingPromises = @ \ {slug},
              !.pending = @ \ PendingOn(L, slug),
              !.settled = SettledBy(L, slug, ok)]

\* the finally() of the getTexture calls a preload call made lowers its counter
ReleaseSlots(P, L, slug) ==
    [p \in DOMAIN P |->
        IF P[p] # <<>> /\ \E r \in PendingOn(L, slug) : r.owner = p
        THEN <<[P[p][1] EXCEPT !.activeLoads = @ - 1]>>
        ELSE P[p]]

\* clearCache: the cache and the failure memo are emptied, loadingPromises is not
clearCache(L) ==
    [L EXCEPT !.cache = {}, !.failedLoads = {}, !.settled = {}]

(***************************************************************************)
(* preloadTextures.                                                        *)
(***************************************************************************)
\* the filter of preloadTextures
ToLoad(L, names) ==
    SelectSeq(names, LAMBDA name :
        /\ cardNameToSlug(name) \notin L.cache
        /\ cardNameToSlug(name) \notin L.failedLoads
        /\ cardNameToSlug(name) \notin L.loadingPromises)

\* toLoad.slice(i, i + PRELOAD_BATCH_SIZE)
BatchOf(toLoad, i) ==
    SubSeq(toLoad, i + 1, Min(i + PRELOAD_BATCH_SIZE, Len(toLoad)))

\* loadNext's loop body, k times: getTexture(batch[batchIndex++], THUMBNAIL)
RECURSIVE StartLoads(_, _, _, _, _)
StartLoads(L, batch, from, k, owner) ==
    IF k = 0 THEN L
    ELSE StartLoads(getTexture(L, SlugOfArgument(batch[from + 1]), owner),
                    batch, from + 1, k - 1, owner)

\* the calls among batch[from+1 .. from+k] that settle without waiting
Immediate(L, batch, from, k) ==
    Cardinality({j \in (from + 1) .. (from + k) :
        SlugOfArgument(batch[j]) \in L.cache \cup L.failedLoads})

\* the counter of a finished batch is no longer read: its calls lose their owner
Disown(L, p) ==
    LET renumber(r) ==
            [r EXCEPT !.owner = 0,
                      !.n = 1 + Cardinality({q \in L.pending :
                                q.slug = r.slug /\ q.role = r.role /\ q.owner = 0})]
    IN  [L EXCEPT !.pending =
            {IF r.owner = p THEN renumber(r) ELSE r : r \in L.pending}]

(***************************************************************************)
(* A batch begins: activeLoads = 0, batchIndex = 0, and                    *)
(* min(CONCURRENT_LOADS, batch.length) loadNext loops are called one after *)
(* the other. The first runs until activeLoads reaches CONCURRENT_LOADS or *)
(* the batch is exhausted; the others find the same. When the batch is     *)
(* exhausted every loop returns, Promise.all resolves and the next batch   *)
(* begins in the same task; otherwise every loop sleeps on its timer.      *)
(* The result is the manager and the call's record, or no record when the  *)
(* call is over.                                                           *)
(***************************************************************************)
RECURSIVE BeginBatch(_, _, _, _)
BeginBatch(L, toLoad, i, p) ==
    LET batch == BatchOf(toLoad, i)
        k     == Min(CONCURRENT_LOADS, Len(batch))
        L1    == StartLoads(L, batch, 0, k, p)
    IN  IF k < Len(batch)
        THEN [lod  |-> L1,
              proc |-> <<[toLoad      |-> toLoad,
                          i           |-> i,
                          batchIndex  |-> k,
                          activeLoads |-> k - Immediate(L, batch, 0, k),
                          workers     |-> k]>>]
        ELSE IF i + PRELOAD_BATCH_SIZE < Len(toLoad)
        THEN BeginBatch(Disown(L1, p), toLoad, i + PRELOAD_BATCH_SIZE, p)
        ELSE [lod |-> Disown(L1, p), proc |-> <<>>]

\* a slot of `preloads` is a one-element sequence holding the call, or empty
FreeSlot == CHOOSE p \in 1 .. MaxPreloads + 1 :
                (p = MaxPreloads + 1 \/ preloads[p] = <<>>)
                /\ \A q \in 1 .. (p - 1) : preloads[q] # <<>>

preloadTextures(names) ==
    LET L0     == [lod EXCEPT !.settled = {}]
        toLoad == ToLoad(L0, names)
    IN  IF toLoad = <<>>
        THEN /\ lod' = L0
             /\ UNCHANGED preloads
        ELSE /\ FreeSlot <= MaxPreloads
             /\ LET res == BeginBatch(L0, toLoad, 0, FreeSlot)
                IN  /\ lod' = res.lod
                    /\ preloads' = [preloads EXCEPT ![FreeSlot] = res.proc]

(***************************************************************************)
(* The timer of one sleeping loadNext loop fires. The loop starts loads    *)
(* while activeLoads < CONCURRENT_LOADS and keys remain, without yielding  *)
(* in between; it returns when the batch is exhausted and sleeps again     *)
(* otherwise. When the last loop has returned the next batch begins.       *)
(***************************************************************************)
loadNext(p) ==
    /\ preloads[p] # <<>>
    /\ LET proc  == preloads[p][1]
           batch == BatchOf(proc.toLoad, proc.i)
           k     == Min(CONCURRENT_LOADS - proc.activeLoads,
                        Len(batch) - proc.batchIndex)
           L0    == [lod EXCEPT !.settled = {}]
           L1    == StartLoads(L0, batch, proc.batchIndex, k, p)
           proc1 == [proc EXCEPT
                        !.batchIndex  = @ + k,
                        !.activeLoads = @ + k - Immediate(L0, batch, proc.batchIndex, k),
                        !.workers     = IF proc.batchIndex + k = Len(batch)
                                        THEN @ - 1 ELSE @]
       IN  IF proc1.workers > 0
           THEN /\ lod' = L1
                /\ preloads' = [preloads EXCEPT ![p] = <<proc1>>]
           ELSE IF proc.i + PRELOAD_BATCH_SIZE < Len(proc.toLoad)
           THEN LET res == BeginBatch(Disown(L1, p), proc.toLoad,
                                      proc.i + PRELOAD_BATCH_SIZE, p)
                IN  /\ lod' = res.lod
                    /\ preloads' = [preloads EXCEPT ![p] = res.proc]
           ELSE /\ lod' = Disown(L1, p)
                /\ preloads' = [preloads EXCEPT ![p] = <<>>]
    /\ UNCHANGED <<failedSinceClear, revealed>>

(***************************************************************************)
(* The tasks of the cache.                                                 *)
(***************************************************************************)
\* a card sprite, or any other caller, asks for a texture
GetTextureCall(key) ==
    /\ lod' = getTexture([lod EXCEPT !.settled = {}], SlugOfArgument(key), 0)
    /\ Cardinality(PendingOn(lod', SlugOfArgument(key))) <= MaxPending
    /\ UNCHANGED <<preloads, failedSinceClear, revealed>>

\* a culling pass hands the newly visible cards to preloadTextures
PreloadCall(names) ==
    /\ preloadTextures(names)
    /\ \A s \in Slugs : Cardinality(PendingOn(lod', s)) <= MaxPending
    /\ UNCHANGED <<failedSinceClear, revealed>>

LoadSucceeds(slug) ==
    /\ lod.assetLoads[slug] > 0
    /\ lod' = LoadSettles(lod, slug, TRUE)
    /\ preloads' = ReleaseSlots(preloads, lod, slug)
    /\ UNCHANGED <<failedSinceClear, revealed>>

LoadFails(slug) ==
    /\ lod.assetLoads[slug] > 0
    /\ lod' = LoadSettles(lod, slug, FALSE)
    /\ preloads' = ReleaseSlots(preloads, lod, slug)
    /\ failedSinceClear' = failedSinceClear \cup {slug}
    /\ UNCHANGED revealed

ClearCache ==
    /\ lod' = clearCache(lod)
    /\ failedSinceClear' = {}
    /\ UNCHANGED <<preloads, revealed>>

\* a culling pass reveals the next n cards of the list and preloads them
CullingPreload(n) ==
    /\ revealed + n <= NumKeys
    /\ preloadTextures([j \in 1 .. n |-> [form |-> "name", id |-> revealed + j]])
    /\ revealed' = revealed + n
    /\ UNCHANGED failedSinceClear

vars == <<lod, preloads, failedSinceClear, revealed, stage, camera, pointer, lastOp, app>>

(***************************************************************************)
(* Grid: pixel <-> cell conversions (all card positions are integers).     *)
(***************************************************************************)

GRID_UNIT == 55
STACK_OFFSET_UNITS == 10
STACK_OFFSET == STACK_OFFSET_UNITS * GRID_UNIT
DOUBLE_CLICK_TIME_MS == 300
CULLING_MARGIN == 300
CULLING_THROTTLE_MS == 50
\* endSelectionBox treats a box no wider and no taller than this as a click
CLICK_BOX_SIZE == 10

CARD_SIZE(isLandscape) ==
    IF isLandscape
    THEN [width |-> 3 * GRID_UNIT, height |-> 2 * GRID_UNIT]
    ELSE [width |-> 2 * GRID_UNIT, height |-> 3 * GRID_UNIT]

\* Math.round(n / d) for integers n and d > 0: halves round towards +infinity
MathRound(n, d) == (2 * n + d) \div (2 * d)
\* Math.floor(n / d)
MathFloor(n, d) == n \div d
Abs(n) == IF n < 0 THEN 0 - n ELSE n

snapToGrid(x, y) ==
    [x |-> MathRound(x, GRID_UNIT) * GRID_UNIT, y |-> MathRound(y, GRID_UNIT) * GRID_UNIT]

pixelsToGrid(x, y) == [x |-> MathFloor(x, GRID_UNIT), y |-> MathFloor(y, GRID_UNIT)]

\* the string `${gridPos.x},${gridPos.y}` as a pair
GridKeyOf(x, y) == <<pixelsToGrid(x, y).x, pixelsToGrid(x, y).y>>

BoundsAt(x, y, isLandscape) ==
    [left |-> x, top |-> y,
     right |-> x + CARD_SIZE(isLandscape).width,
     bottom |-> y + CARD_SIZE(isLandscape).height]

pointInBounds(point, bounds) ==
    /\ point.x >= bounds.left
    /\ point.x <= bounds.right
    /\ point.y >= bounds.top
    /\ point.y <= bounds.bottom

boundsIntersect(a, b) ==
    ~ (a.right < b.left \/ a.left > b.right \/ a.bottom < b.top \/ a.top > b.bottom)

(***************************************************************************)
(* PixiStage.  The stage is one record T; every method is an operator from *)
(* the stage before the call to the stage after it.  A card's entry of     *)
(* cardSprites holds the sprite's x, y, zIndex, selected and visible and   *)
(* the data's bounds, gridKey, basePosition and layout.isLandscape.        *)
(* cardOrder is the insertion order of the cardSprites map.  Times are     *)
(* measured from the present: lastClickTime is minus the age of the last   *)
(* click, and no older than DOUBLE_CLICK_TIME_MS.                          *)
(***************************************************************************)

NoCard == "null"
Now == 0

CardsOf(T) == DOMAIN T.cardSprites

RECURSIVE SeqToSet(_)
SeqToSet(s) == IF s = <<>> THEN {} ELSE {Head(s)} \cup SeqToSet(Tail(s))

IndexOf(s, c) == CHOOSE i \in 1 .. Len(s) : s[i] = c

SpriteData(name, x, y, isLandscape) ==
    [name |-> name, x |-> x, y |-> y, zIndex |-> 0, selected |-> FALSE, visible |-> FALSE,
     bounds |-> BoundsAt(x, y, isLandscape), isLandscape |-> isLandscape,
     gridKey |-> GridKeyOf(x, y), basePosition |-> [x |-> x, y |-> y],
     overlayVisible |-> FALSE, quantityText |-> 0, quantityFill |-> "white"]

setSelected(T, c, flag) ==
    IF c \in CardsOf(T) THEN [T EXCEPT !.cardSprites[c].selected = flag] ELSE T

selectCardOnly(T, c) == setSelected([T EXCEPT !.selectedCards = {c}], c, TRUE)

selectCard(T, c) == setSelected([T EXCEPT !.selectedCards = @ \cup {c}], c, TRUE)

deselectCard(T, c) == setSelected([T EXCEPT !.selectedCards = @ \ {c}], c, FALSE)

\* clearSelection that empties the set and leaves the sprites as they are
clearSelectionSetOnly(T) == [T EXCEPT !.selectedCards = {}]

clearSelection(T) ==
    [T EXCEPT !.selectedCards = {},
              !.cardSprites = [c \in CardsOf(T) |->
                    IF c \in T.selectedCards THEN [T.cardSprites[c] EXCEPT !.selected = FALSE]
                    ELSE T.cardSprites[c]]]

\* the first card in iteration order among the hit cards of greatest zIndex
getCardAtPosition(T, worldPos) ==
    LET hit == {c \in T.visibleCardNames \cap CardsOf(T) :
                    pointInBounds(worldPos, T.cardSprites[c].bounds)}
        top == {c \in hit : \A d \in hit : T.cardSprites[d].zIndex <= T.cardSprites[c].zIndex}
    IN  IF hit = {} THEN NoCard
        ELSE CHOOSE c \in top :
                \A d \in top : IndexOf(T.cardOrder, c) <= IndexOf(T.cardOrder, d)

\* the sprite of the i-th (from 0) of n stacked cards, placed on its base
StackedSpriteFromBase(d, i, n) ==
    LET indexOffset == i * STACK_OFFSET
        yOffset == IF d.isLandscape THEN 0 - indexOffset ELSE indexOffset
        y == IF n <= 1 THEN d.basePosition.y ELSE d.basePosition.y + yOffset
    IN  [d EXCEPT !.x = d.basePosition.x, !.y = y,
                  !.bounds = BoundsAt(d.basePosition.x, y, d.isLandscape),
                  !.zIndex = IF n <= 1 THEN 0 ELSE i]

StackedSprite(d, i, n) ==
    LET indexOffset == i * STACK_OFFSET - ((n - 1) * STACK_OFFSET) \div 2
        yOffset == IF d.isLandscape THEN 0 - indexOffset ELSE indexOffset
        y == IF n <= 1 THEN d.basePosition.y ELSE d.basePosition.y + yOffset
    IN  [d EXCEPT !.x = d.basePosition.x, !.y = y,
                  !.bounds = BoundsAt(d.basePosition.x, y, d.isLandscape),
                  !.zIndex = IF n <= 1 THEN 0 ELSE i]

applyStackOffsets(T, cardNames) ==
    [T EXCEPT !.cardSprites = [c \in CardsOf(T) |->
        IF c \in SeqToSet(cardNames)
        THEN StackedSprite(T.cardSprites[c], IndexOf(cardNames, c) - 1, Len(cardNames))
        ELSE T.cardSprites[c]]]

StackKeys(T) == {T.cardSprites[c].gridKey : c \in CardsOf(T)}

StackAt(T, key) == SelectSeq(T.cardOrder, LAMBDA c : T.cardSprites[c].gridKey = key)

rebuildCardStacks(T) ==
    LET stacks == [key \in StackKeys(T) |-> StackAt(T, key)]
    IN  [T EXCEPT !.cardStacks = stacks,
                  !.cardSprites = [c \in CardsOf(T) |->
                        StackedSprite(T.cardSprites[c],
                                      IndexOf(stacks[T.cardSprites[c].gridKey], c) - 1,
                                      Len(stacks[T.cardSprites[c].gridKey]))]]

\* bringCardToFront that reorders the bucket and leaves the sprites alone
bringCardToFrontUnplaced(T, cardName) ==
    IF cardName \notin CardsOf(T) THEN T
    ELSE LET key == T.cardSprites[cardName].gridKey
         IN  IF key \notin DOMAIN T.cardStacks THEN T
             ELSE LET stack == T.cardStacks[key]
                      moved == Append(SelectSeq(stack, LAMBDA c : c # cardName), cardName)
                  IN  IF Len(stack) <= 1 \/ cardName \notin SeqToSet(stack)
                         \/ stack[Len(stack)] = cardName
                      THEN T
                      ELSE [T EXCEPT !.cardStacks[key] = moved]

bringCardToFront(T, cardName) ==
    IF cardName \notin CardsOf(T) THEN T
    ELSE LET key == T.cardSprites[cardName].gridKey
         IN  IF key \notin DOMAIN T.cardStacks THEN T
             ELSE LET stack == T.cardStacks[key]
                      moved == Append(SelectSeq(stack, LAMBDA c : c # cardName), cardName)
                  IN  IF Len(stack) <= 1 \/ cardName \notin SeqToSet(stack)
                         \/ stack[Len(stack)] = cardName
                      THEN T
                      ELSE applyStackOffsets([T EXCEPT !.cardStacks[key] = moved], moved)

startCardDrag(T, worldPos) ==
    [T EXCEPT !.dragState =
        [isDragging |-> TRUE,
         startWorldPos |-> worldPos,
         draggedCards |-> T.selectedCards,
         cardStartPositions |-> [c \in T.selectedCards \cap CardsOf(T) |->
                                    [x |-> T.cardSprites[c].x, y |-> T.cardSprites[c].y]]]]

updateCardDrag(T, worldPos) ==
    LET dx == worldPos.x - T.dragState.startWorldPos.x
        dy == worldPos.y - T.dragState.startWorldPos.y
        moving == T.dragState.draggedCards \cap CardsOf(T)
                    \cap DOMAIN T.dragState.cardStartPositions
    IN  [T EXCEPT !.cardSprites = [c \in CardsOf(T) |->
            IF c \in moving
            THEN [T.cardSprites[c] EXCEPT !.x = T.dragState.cardStartPositions[c].x + dx,
                                          !.y = T.dragState.cardStartPositions[c].y + dy]
            ELSE T.cardSprites[c]]]

\* a dragged card where endCardDrag puts it down
DroppedNoSnap(d) ==
    [d EXCEPT !.basePosition = [x |-> d.x, y |-> d.y],
              !.bounds = BoundsAt(d.x, d.y, d.isLandscape),
              !.gridKey = GridKeyOf(d.x, d.y)]

Dropped(d) ==
    LET snapped == snapToGrid(d.x, d.y)
    IN  [d EXCEPT !.x = snapped.x, !.y = snapped.y,
                  !.basePosition = [x |-> snapped.x, y |-> snapped.y],
                  !.bounds = BoundsAt(snapped.x, snapped.y, d.isLandscape),
                  !.gridKey = GridKeyOf(snapped.x, snapped.y)]

endCardDrag(T) ==
    LET put == [T EXCEPT !.cardSprites = [c \in CardsOf(T) |->
                    IF c \in T.dragState.draggedCards
                    THEN Dropped(T.cardSprites[c])
                    ELSE T.cardSprites[c]]]
    IN  [rebuildCardStacks(put) EXCEPT !.dragState.isDragging = FALSE,
                                       !.dragState.draggedCards = {},
                                       !.dragState.cardStartPositions = <<>>]

\* startSelectionBox that records the corner without activating the box
startSelectionBoxInactive(T, worldPos) ==
    [T EXCEPT !.selectionBox = [isActive |-> FALSE, startWorldPos |-> {worldPos}]]

startSelectionBox(T, worldPos) ==
    [T EXCEPT !.selectionBox = [isActive |-> TRUE, startWorldPos |-> {worldPos}]]

\* the rectangle spanned by the two corners
SelectionBounds(start, worldPos) ==
    [left |-> Min(start.x, worldPos.x), top |-> Min(start.y, worldPos.y),
     right |-> Max(start.x, worldPos.x), bottom |-> Max(start.y, worldPos.y)]

\* endSelectionBox's test that the box is more than a click
IsBoxAtLeast(start, worldPos) ==
    Abs(worldPos.x - start.x) >= CLICK_BOX_SIZE \/ Abs(worldPos.y - start.y) >= CLICK_BOX_SIZE

IsBox(start, worldPos) ==
    Abs(worldPos.x - start.x) > CLICK_BOX_SIZE \/ Abs(worldPos.y - start.y) > CLICK_BOX_SIZE

CardsInBox(T, start, worldPos) ==
    {c \in CardsOf(T) :
        boundsIntersect(T.cardSprites[c].bounds, SelectionBounds(start, worldPos))}

RECURSIVE SelectAll(_, _)
SelectAll(T, cs) ==
    IF cs = {} THEN T
    ELSE LET c == CHOOSE x \in cs : TRUE IN SelectAll(selectCard(T, c), cs \ {c})

endSelectionBox(T, worldPos) ==
    IF T.selectionBox.startWorldPos = {} THEN T
    ELSE LET start == CHOOSE p \in T.selectionBox.startWorldPos : TRUE
             chosen == IF IsBox(start, worldPos)
                       THEN SelectAll(clearSelection(T), CardsInBox(T, start, worldPos))
                       ELSE T
         IN  [chosen EXCEPT !.selectionBox = [isActive |-> FALSE, startWorldPos |-> {}]]

(***************************************************************************)
(* Camera.pauseDrag / resumeDrag pause and resume the viewport's drag      *)
(* plugin.                                                                 *)
(***************************************************************************)

pauseDrag(C) == [C EXCEPT !.dragPaused = TRUE]
resumeDrag(C) == [C EXCEPT !.dragPaused = FALSE]

(***************************************************************************)
(* The pointer handlers.  An event e has the world position pos of the     *)
(* pointer, the button (0 left, 2 right), shiftKey and ctrlKey (ctrlKey or *)
(* metaKey).  A handler gives the stage and camera after it, the branch it *)
(* took and the deck notification it made.                                 *)
(***************************************************************************)

OutcomeSilent(T, C, branch, notify) ==
    [stage |-> T, camera |-> C, branch |-> branch,
     notify |-> [kind |-> "none", card |-> "null"]]

Outcome(T, C, branch, notify) ==
    [stage |-> T, camera |-> C, branch |-> branch, notify |-> notify]

NoNotify == [kind |-> "none", card |-> NoCard]

onPointerDown(T, C, e) ==
    LET T0 == [T EXCEPT !.pointerDownOnSelectedCard = FALSE]
        clickedCard == getCardAtPosition(T0, e.pos)
        wasSelected == clickedCard \in T0.selectedCards
        isDoubleClick == /\ Now - T0.lastClickTime < DOUBLE_CLICK_TIME_MS
                         /\ T0.lastClickedCard = clickedCard
        T1 == [T0 EXCEPT !.lastClickTime = Now, !.lastClickedCard = clickedCard]
        T2 == bringCardToFront(T1, clickedCard)
    IN  IF e.button = 2 THEN Outcome(T0, C, "right", NoNotify)
        ELSE IF clickedCard = NoCard
        THEN Outcome(startSelectionBox(IF e.shiftKey THEN T0 ELSE clearSelection(T0), e.pos),
                     pauseDrag(C), "empty", NoNotify)
        ELSE IF isDoubleClick
        THEN Outcome(T1, C, "double", [kind |-> "add", card |-> clickedCard])
        ELSE IF e.shiftKey
        THEN Outcome(IF wasSelected THEN deselectCard(T2, clickedCard)
                                    ELSE selectCard(T2, clickedCard),
                     C, "toggle", NoNotify)
        ELSE IF e.ctrlKey
        THEN Outcome(startSelectionBox(T2, e.pos), pauseDrag(C), "ctrl", NoNotify)
        ELSE IF wasSelected
        THEN Outcome(startCardDrag([T2 EXCEPT !.pointerDownOnSelectedCard = TRUE], e.pos),
                     pauseDrag(C), "drag", NoNotify)
        ELSE Outcome(startSelectionBox(selectCard(clearSelection(T2), clickedCard), e.pos),
                     pauseDrag(C), "select", NoNotify)

onPointerMove(T, C, e) ==
    IF T.selectionBox.isActive THEN Outcome(T, C, "box", NoNotify)
    ELSE IF T.dragState.isDragging /\ T.pointerDownOnSelectedCard
    THEN Outcome(updateCardDrag(T, e.pos), C, "drag", NoNotify)
    ELSE Outcome(T, C, "none", NoNotify)

\* onPointerUp without the test of the button
onPointerUpAnyButton(T, C, e) ==
    IF T.selectionBox.isActive
    THEN Outcome(endSelectionBox(T, e.pos), resumeDrag(C),
                 IF \E start \in T.selectionBox.startWorldPos : IsBox(start, e.pos)
                 THEN "box" ELSE "click",
                 NoNotify)
    ELSE IF T.dragState.isDragging
    THEN Outcome([endCardDrag(T) EXCEPT !.pointerDownOnSelectedCard = FALSE],
                 resumeDrag(C), "drag", NoNotify)
    ELSE Outcome([T EXCEPT !.pointerDownOnSelectedCard = FALSE], C, "none", NoNotify)

onPointerUp(T, C, e) ==
    LET clickedCard == getCardAtPosition(T, e.pos)
        isDoubleClick == /\ clickedCard # NoCard
                         /\ Now - T.lastClickTime < DOUBLE_CLICK_TIME_MS
                         /\ T.lastClickedCard = clickedCard
    IN  IF e.button = 2
        THEN Outcome([T EXCEPT !.lastClickTime = Now, !.lastClickedCard = clickedCard], C,
                     "right",
                     IF isDoubleClick THEN [kind |-> "remove", card |-> clickedCard]
                                      ELSE NoNotify)
        ELSE IF T.selectionBox.isActive
        THEN Outcome(endSelectionBox(T, e.pos), resumeDrag(C),
                     IF \E start \in T.selectionBox.startWorldPos : IsBox(start, e.pos)
                     THEN "box" ELSE "click",
                     NoNotify)
        ELSE IF T.dragState.isDragging
        THEN Outcome([endCardDrag(T) EXCEPT !.pointerDownOnSelectedCard = FALSE],
                     resumeDrag(C), "drag", NoNotify)
        ELSE Outcome([T EXCEPT !.pointerDownOnSelectedCard = FALSE], C, "none", NoNotify)

(***************************************************************************)
(* The stage after setCards has laid out two air Minions of cost 1 and 2:  *)
(* calculateCardLayout puts them side by side in the first row, and the    *)
(* first culling pass after fitToContent finds both in view.               *)
(***************************************************************************)

LaidOut == <<SpriteData("A", 0, 0, FALSE), SpriteData("B", 2 * GRID_UNIT, 0, FALSE)>>

\* the scene built from a layout, every card in view
StageOf(layout) ==
    LET built == [cardSprites |-> [c \in {layout[i].name : i \in DOMAIN layout} |->
                        LET i == CHOOSE j \in DOMAIN layout : layout[j].name = c
                        IN  [layout[i] EXCEPT !.visible = TRUE]],
                  cardOrder |-> [i \in DOMAIN layout |-> layout[i].name],
                  visibleCardNames |-> {layout[i].name : i \in DOMAIN layout},
                  selectedCards |-> {},
                  dragState |-> [isDragging |-> FALSE, draggedCards |-> {},
                                 startWorldPos |-> [x |-> 0, y |-> 0],
                                 cardStartPositions |-> <<>>],
                  pointerDownOnSelectedCard |-> FALSE,
                  selectionBox |-> [isActive |-> FALSE, startWorldPos |-> {}],
                  lastClickTime |-> 0 - DOUBLE_CLICK_TIME_MS,
                  lastClickedCard |-> NoCard,
                  cardStacks |-> <<>>,
                  isDestroyed |-> FALSE,
                  cullingScheduled |-> FALSE,
                  cullingTimers |-> <<>>,
                  lastCullingUpdate |-> 0 - CULLING_THROTTLE_MS]
    IN  rebuildCardStacks(built)

InitStage == StageOf(LaidOut)

\* the visible world rectangle when every card is in view
WholeView == [left |-> 0, top |-> 0, right |-> 1000, bottom |-> 600]

InitOp == [ev |-> "none", button |-> 0, branch |-> "none", notify |-> NoNotify]

(***************************************************************************)
(* Camera. Zoom factors are in thousandths. camera.scale is                *)
(* viewport.scale.x, camera.view the bounds getVisibleBounds returns,      *)
(* camera.screen the viewport's screen size and camera.animation the       *)
(* target of the running viewport.animate.  A camera method gives the      *)
(* camera after it and what it told onZoomChange (0: not called) and       *)
(* whether it called onViewportChange.                                     *)
(***************************************************************************)
MIN_ZOOM == 20
MAX_ZOOM == 1500
INITIAL_ZOOM == 100

NoAnimation == [scale |-> 0, x |-> 0, y |-> 0]

\* viewport.corner and worldScreenWidth/Height for a centre, scale and screen
ViewAt(x, y, scale, screen) ==
    LET w == (screen.width * 1000) \div scale
        h == (screen.height * 1000) \div scale
    IN  [left |-> x - w \div 2, top |-> y - h \div 2,
         right |-> x - w \div 2 + w, bottom |-> y - h \div 2 + h]

CentreX(view) == (view.left + view.right) \div 2
CentreY(view) == (view.top + view.bottom) \div 2

Told(C, zoom, viewport) == [camera |-> C, zoom |-> zoom, viewport |-> viewport]

handleZoomChange(C) ==
    IF C.scale # C.currentZoom
    THEN Told([C EXCEPT !.currentZoom = C.scale], C.scale, TRUE)
    ELSE Told(C, 0, TRUE)

handleViewportMove(C) == Told(C, 0, TRUE)

handleResize(C, screen) ==
    Told([C EXCEPT !.screen = screen,
                   !.view = ViewAt(CentreX(C.view), CentreY(C.view), C.scale, screen)],
         0, TRUE)

\* fitToContent without the clamp to the zoom limits
fitToContentUnclamped(C, bounds, padding) ==
    LET width == bounds.right - bounds.left + padding * 2
        height == bounds.bottom - bounds.top + padding * 2
        scaleX == (C.screen.width * 1000) \div width
        scaleY == (C.screen.height * 1000) \div height
        scale == Min(scaleX, scaleY)
    IN  Told([C EXCEPT !.currentZoom = scale,
                       !.animation = [scale |-> scale,
                                      x |-> CentreX(bounds), y |-> CentreY(bounds)]],
             scale, FALSE)

fitToContent(C, bounds, padding) ==
    LET width == bounds.right - bounds.left + padding * 2
        height == bounds.bottom - bounds.top + padding * 2
        scaleX == (C.screen.width * 1000) \div width
        scaleY == (C.screen.height * 1000) \div height
        scale == Min(Min(scaleX, scaleY), MAX_ZOOM)
        clampedScale == Max(scale, MIN_ZOOM)
    IN  Told([C EXCEPT !.currentZoom = clampedScale,
                       !.animation = [scale |-> clampedScale,
                                      x |-> CentreX(bounds), y |-> CentreY(bounds)]],
             clampedScale, FALSE)

\* the viewport zooms to a new scale about its centre and emits 'zoomed'
viewportZoomed(C, scale) ==
    handleZoomChange([C EXCEPT !.scale = scale, !.animation = NoAnimation,
                               !.view = ViewAt(CentreX(C.view), CentreY(C.view), scale, C.screen)])

\* the viewport is dragged by dx and emits 'moved'
viewportMoved(C, dx) ==
    handleViewportMove([C EXCEPT !.animation = NoAnimation,
                                 !.view = [left |-> C.view.left + dx, top |-> C.view.top,
                                           right |-> C.view.right + dx,
                                           bottom |-> C.view.bottom]])

\* the running animation reaches its target: 'zoomed' when the scale changed,
\* 'moved' otherwise
viewportAnimated(C) ==
    LET a == C.animation
        D == [C EXCEPT !.scale = a.scale, !.animation = NoAnimation,
                       !.view = ViewAt(a.x, a.y, a.scale, C.screen)]
    IN  IF a.scale # C.scale THEN handleZoomChange(D) ELSE handleViewportMove(D)

(***************************************************************************)
(* appReducer. app.loaded tells userData from null; app.decks maps the ids *)
(* of userData.decks to their boards, a board being a list of              *)
(* [name, quantity].                                                       *)
(***************************************************************************)
NoId == "null"

initialAppState ==
    [loaded |-> FALSE, decks |-> <<>>, activeDeckId |-> NoId, activeBoard |-> "mainboard"]

EmptyBoards == [mainboard |-> <<>>, sideboard |-> <<>>, avatar |-> <<>>, maybeboard |-> <<>>]

addToBoard(board, cardName) ==
    IF \E i \in DOMAIN board : board[i].name = cardName
    THEN [i \in DOMAIN board |->
            IF board[i].name = cardName THEN [board[i] EXCEPT !.quantity = @ + 1]
            ELSE board[i]]
    ELSE Append(board, [name |-> cardName, quantity |-> 1])

removeKeepingEntries(board, cardName) ==
    [i \in DOMAIN board |->
        IF board[i].name = cardName THEN [board[i] EXCEPT !.quantity = @ - 1]
        ELSE board[i]]

removeFromBoard(board, cardName) ==
    SelectSeq([i \in DOMAIN board |->
                    IF board[i].name = cardName THEN [board[i] EXCEPT !.quantity = @ - 1]
                    ELSE board[i]],
              LAMBDA c : c.quantity > 0)

\* the guards of the two cases, and decks.map finding the active deck
HasActiveDeck(S) == S.loaded /\ S.activeDeckId # NoId /\ S.activeDeckId \in DOMAIN S.decks

\* decks.map: the active deck gets the new board, every other deck is kept
WithActiveBoard(S, board) ==
    [S EXCEPT !.decks = [id \in DOMAIN S.decks |->
        IF id # S.activeDeckId THEN S.decks[id]
        ELSE [S.decks[id] EXCEPT ![S.activeBoard] = board]]]

appReducer(S, action) ==
    CASE action.type = "SET_USER_DATA" ->
            [S EXCEPT !.loaded = TRUE, !.decks = action.decks]
      [] action.type = "SET_ACTIVE_DECK" -> [S EXCEPT !.activeDeckId = action.deckId]
      [] action.type = "SET_ACTIVE_BOARD" -> [S EXCEPT !.activeBoard = action.board]
      [] action.type = "ADD_CARD_TO_DECK" ->
            IF ~ HasActiveDeck(S) THEN S
            ELSE WithActiveBoard(S, addToBoard(S.decks[S.activeDeckId][S.activeBoard],
                                               action.cardName))
      [] action.type = "REMOVE_CARD_FROM_DECK" ->
            IF ~ HasActiveDeck(S) THEN S
            ELSE WithActiveBoard(S, removeFromBoard(S.decks[S.activeDeckId][S.activeBoard],
                                                    action.cardName))

InitWith(T) ==
    /\ lod = InitLod
    /\ preloads = [p \in 1 .. MaxPreloads |-> <<>>]
    /\ failedSinceClear = {}
    /\ revealed = 0
    /\ stage = T
    /\ camera = [dragPaused |-> FALSE, view |-> WholeView, destroyed |-> FALSE,
                 currentZoom |-> INITIAL_ZOOM, scale |-> INITIAL_ZOOM,
                 screen |-> [width |-> 100, height |-> 60], animation |-> NoAnimation]
    /\ pointer = [held |-> FALSE, rightCard |-> NoCard,
                  rightTime |-> 0 - DOUBLE_CLICK_TIME_MS]
    /\ lastOp = InitOp
    /\ app = initialAppState

Init == InitWith(InitStage)

\* delivery of one pointer event to its handler
Deliver(ev, e, out) ==
    /\ stage' = out.stage
    /\ camera' = out.camera
    /\ pointer' = [held |-> IF ev = "move" THEN pointer.held ELSE ev = "down",
                   rightCard |-> IF ev = "up" /\ e.button = 2
                                 THEN getCardAtPosition(stage, e.pos)
                                 ELSE pointer.rightCard,
                   rightTime |-> IF ev = "up" /\ e.button = 2
                                 THEN IF getCardAtPosition(stage, e.pos) = NoCard
                                      THEN 0 - DOUBLE_CLICK_TIME_MS ELSE Now
                                 ELSE pointer.rightTime]
    /\ lastOp' = [ev |-> ev, button |-> e.button, branch |-> out.branch,
                  notify |-> out.notify]
    /\ UNCHANGED <<lodVars, app>>

\* the part of the world in which cards are dragged around
ArenaRight == 110
ArenaDepth == 275

InArena(d) ==
    LET snapped == snapToGrid(d.x, d.y)
    IN  /\ snapped.x >= 0 /\ snapped.x <= ArenaRight
        /\ snapped.y >= 0 - ArenaDepth /\ snapped.y <= ArenaDepth

OnPointerDown(e) == Deliver("down", e, onPointerDown(stage, camera, e))

\* the pointer moves, and carries no card out of the arena
OnPointerMove(e) ==
    /\ \A c \in CardsOf(stage) :
            \/ onPointerMove(stage, camera, e).stage.cardSprites[c] = stage.cardSprites[c]
            \/ InArena(onPointerMove(stage, camera, e).stage.cardSprites[c])
    /\ Deliver("move", e, onPointerMove(stage, camera, e))

OnPointerUp(e) == Deliver("up", e, onPointerUp(stage, camera, e))

\* the last right click dt later; one older than the double-click window is
\* as good as none
Aged(P, dt) ==
    IF P.rightTime - dt > 0 - DOUBLE_CLICK_TIME_MS
    THEN [P EXCEPT !.rightTime = @ - dt]
    ELSE [P EXCEPT !.rightTime = 0 - DOUBLE_CLICK_TIME_MS, !.rightCard = NoCard]

\* time passes; what is older than the double-click window stays older
Tick(dt) ==
    /\ \/ stage.lastClickTime > 0 - DOUBLE_CLICK_TIME_MS
       \/ stage.lastCullingUpdate > 0 - CULLING_THROTTLE_MS
       \/ \E i \in DOMAIN stage.cullingTimers : stage.cullingTimers[i] > 0
    /\ stage' = [stage EXCEPT
                    !.lastClickTime = Max(@ - dt, 0 - DOUBLE_CLICK_TIME_MS),
                    !.lastCullingUpdate = Max(@ - dt, 0 - CULLING_THROTTLE_MS),
                    !.cullingTimers = [i \in DOMAIN @ |-> Max(@[i] - dt, 0)]]
    /\ pointer' = Aged(pointer, dt)
    /\ UNCHANGED <<camera, lastOp, app>>
    /\ UNCHANGED lodVars

\* milliseconds between two observations of the clock
TimeStep == 300

Pt(x, y) == [x |-> x, y |-> y]

Events(points, buttons) ==
    [pos : points, button : buttons, shiftKey : BOOLEAN, ctrlKey : BOOLEAN]

Plain(events) == {e \in events : ~ e.shiftKey /\ ~ e.ctrlKey}

\* the pointer on card A, on card B and on empty space
ClickPoints == {Pt(50, 80), Pt(160, 80), Pt(300, 80)}

\* any pointer event may follow any other
NextStage ==
    \/ \E e \in Events(ClickPoints, {0, 2}) : OnPointerDown(e)
    \/ \E e \in Plain(Events(ClickPoints, {0})) : OnPointerMove(e)
    \/ \E e \in Plain(Events(ClickPoints, {0, 2})) : OnPointerUp(e)
    \/ Tick(TimeStep)

SpecStage == Init /\ [][NextStage]_vars

\* the pointer on each card, a few pixels off, and on the places where the
\* cards of a stack of two are drawn
DragPoints ==
    {Pt(50, 80), Pt(160, 80), Pt(60, 90), Pt(61, 91), Pt(160, 0 - 195), Pt(160, 355)}

Press(e) == ~ pointer.held /\ OnPointerDown(e)

Drag(e) == pointer.held /\ OnPointerMove(e)

Release(e) == pointer.held /\ OnPointerUp(e)

\* gestures of one pointer with the left button: press, drag, release
NextDrag ==
    \/ \E e \in Events(DragPoints, {0}) : Press(e)
    \/ \E e \in Plain(Events(DragPoints, {0})) : Drag(e)
    \/ \E e \in Plain(Events(DragPoints, {0})) : Release(e)
    \/ Tick(TimeStep)

SpecDrag == Init /\ [][NextDrag]_vars

\* three cards side by side, the third a spell (portrait) or a site (landscape)
LaidOut3(thirdIsSite) ==
    <<SpriteData("A", 0, 0, FALSE), SpriteData("B", 2 * GRID_UNIT, 0, FALSE),
      SpriteData("C", 4 * GRID_UNIT, 0, thirdIsSite)>>

InitStack == \E thirdIsSite \in BOOLEAN : InitWith(StageOf(LaidOut3(thirdIsSite)))

CentreOf(bounds) ==
    Pt((bounds.left + bounds.right) \div 2, (bounds.top + bounds.bottom) \div 2)

PlainLeft(pos) == [pos |-> pos, button |-> 0, shiftKey |-> FALSE, ctrlKey |-> FALSE]

\* the button goes down in the middle of a card, where the card is drawn
PressOn(c) == Press(PlainLeft(CentreOf(stage.cardSprites[c].bounds)))

\* the pointer carries the dragged card to the cell of card t
DragOnto(t) ==
    /\ pointer.held
    /\ stage.dragState.isDragging
    /\ \E c \in stage.dragState.draggedCards :
          LET from == stage.dragState.cardStartPositions[c]
              to == stage.cardSprites[t].basePosition
              e == PlainLeft(Pt(stage.dragState.startWorldPos.x + to.x - from.x,
                                stage.dragState.startWorldPos.y + to.y - from.y))
          IN  Deliver("move", e, onPointerMove(stage, camera, e))

StackDepth == 275

\* every card's cell is in the row of cells the cards start in
InRow(T) ==
    \A c \in CardsOf(T) :
        /\ T.cardSprites[c].basePosition.y >= 0 - StackDepth
        /\ T.cardSprites[c].basePosition.y <= StackDepth

\* the button goes up without further movement, and no card leaves the row
ReleaseThere ==
    /\ pointer.held
    /\ \E pos \in IF stage.selectionBox.isActive THEN stage.selectionBox.startWorldPos
                    ELSE {stage.dragState.startWorldPos} :
          /\ InRow(onPointerUp(stage, camera, PlainLeft(pos)).stage)
          /\ OnPointerUp(PlainLeft(pos))

\* cards are picked up one at a time and dropped on each other's cells
NextStack ==
    \/ \E c \in CardsOf(stage) : PressOn(c)
    \/ \E t \in CardsOf(stage) : DragOnto(t)
    \/ ReleaseThere
    \/ Tick(TimeStep)

SpecStack == InitStack /\ [][NextStack]_vars

(***************************************************************************)
(* Culling, card list rebuild and teardown.                                *)
(***************************************************************************)
\* the cards of the scenes, in the order of their slugs
CardIds == <<"A", "B", "C", "D", "E", "F", "G", "H", "I", "J", "K", "L", "M">>

\* the names performCulling hands to preloadTextures
CardKeys(names) ==
    [i \in DOMAIN names |-> [form |-> "name", id |-> IndexOf(CardIds, names[i])]]

\* the culling bounds without the margin
Unexpanded(view) == view

Expanded(view) ==
    [left |-> view.left - CULLING_MARGIN, top |-> view.top - CULLING_MARGIN,
     right |-> view.right + CULLING_MARGIN, bottom |-> view.bottom + CULLING_MARGIN]

\* the culling pass: the scene after it and the cards it hands to the preload
performCulling(T, C) ==
    LET isVisible(c) == boundsIntersect(T.cardSprites[c].bounds, Expanded(C.view))
    IN  [stage |-> [T EXCEPT !.lastCullingUpdate = Now,
                             !.cardSprites = [c \in CardsOf(T) |->
                                   [T.cardSprites[c] EXCEPT !.visible = isVisible(c)]],
                             !.visibleCardNames = {c \in CardsOf(T) : isVisible(c)}],
         cardsToLoad |-> SelectSeq(T.cardOrder,
                            LAMBDA c : isVisible(c) /\ ~ T.cardSprites[c].visible)]

\* performCulling as a step. The bounds of a destroyed viewport are read
\* after lastCullingUpdate is written: the read throws or gives the bounds.
Cull(T, C, readThrows) ==
    IF C.destroyed /\ readThrows
    THEN /\ stage' = [T EXCEPT !.lastCullingUpdate = Now]
         /\ UNCHANGED <<lod, preloads>>
    ELSE /\ stage' = performCulling(T, C).stage
         /\ IF performCulling(T, C).cardsToLoad = <<>>
            THEN UNCHANGED <<lod, preloads>>
            ELSE preloadTextures(CardKeys(performCulling(T, C).cardsToLoad))

SceneOp(ev, branch) == [ev |-> ev, button |-> 0, branch |-> branch, notify |-> NoNotify]

\* scheduleCulling's timer delay with the time since the last pass for it
timerDelayElapsed(elapsed) == elapsed

\* the delay of the timer scheduleCulling sets, elapsed after the last pass
timerDelay(elapsed) == CULLING_THROTTLE_MS - elapsed

\* the camera reports a pan, a zoom or a resize: handleViewportChange.
\* stage.cullingTimers holds the time left of each timer set and not fired.
HandleViewportChange(view) ==
    /\ camera' = [camera EXCEPT !.view = view]
    /\ IF stage.cullingScheduled
       THEN UNCHANGED <<stage, lod, preloads>>
       ELSE IF Now - stage.lastCullingUpdate >= CULLING_THROTTLE_MS
       THEN \E readThrows \in BOOLEAN : Cull(stage, camera', readThrows)
       ELSE /\ stage' = [stage EXCEPT
                            !.cullingScheduled = TRUE,
                            !.cullingTimers =
                                Append(@, timerDelay(Now - stage.lastCullingUpdate))]
            /\ UNCHANGED <<lod, preloads>>
    /\ lastOp' = SceneOp("viewport", IF stage.cullingScheduled THEN "pending"
                                     ELSE IF stage'.cullingScheduled THEN "scheduled"
                                     ELSE "culled")
    /\ UNCHANGED <<pointer, app, failedSinceClear, revealed>>

\* a timer set by scheduleCulling fires, its delay over
CullingTimer ==
    /\ \E i \in DOMAIN stage.cullingTimers :
          /\ stage.cullingTimers[i] = 0
          /\ \E readThrows \in BOOLEAN :
                Cull([stage EXCEPT !.cullingScheduled = FALSE,
                                   !.cullingTimers = [j \in 1 .. Len(@) - 1 |->
                                                        IF j < i THEN @[j] ELSE @[j + 1]]],
                     camera, readThrows)
    /\ lastOp' = SceneOp("timer", IF stage'.visibleCardNames = stage.visibleCardNames
                                  THEN "same" ELSE "changed")
    /\ UNCHANGED <<camera, pointer, app, failedSinceClear, revealed>>

\* rebuildCardSprites up to the culling pass, for a non-empty layout
rebuildCardSprites(T, layout) ==
    rebuildCardStacks(
        [T EXCEPT !.cardSprites = [c \in {layout[i].name : i \in DOMAIN layout} |->
                        layout[CHOOSE j \in DOMAIN layout : layout[j].name = c]],
                  !.cardOrder = [i \in DOMAIN layout |-> layout[i].name],
                  !.visibleCardNames = {},
                  !.selectedCards = {},
                  !.cardStacks = <<>>])

\* setCards on the initialized scene
SetCards(layout) ==
    /\ ~ stage.isDestroyed
    /\ Cull(rebuildCardSprites(stage, layout), camera, FALSE)
    /\ lastOp' = SceneOp("setCards", "rebuilt")
    /\ UNCHANGED <<camera, pointer, app, failedSinceClear, revealed>>

\* Camera.destroy: the viewport is destroyed
destroyCamera(C) == [C EXCEPT !.destroyed = TRUE]

\* PixiStage.destroy on the initialized scene
Destroy ==
    /\ ~ stage.isDestroyed
    /\ stage' = [stage EXCEPT !.isDestroyed = TRUE]
    /\ camera' = destroyCamera(camera)
    /\ lod' = clearCache(lod)
    /\ failedSinceClear' = {}
    /\ lastOp' = SceneOp("destroy", "none")
    /\ UNCHANGED <<preloads, pointer, app, revealed>>

\* a view that leaves out what lies left of x = 200
RightView == [left |-> 500, top |-> 0, right |-> 1500, bottom |-> 600]

\* a view that leaves out what lies right of x = 200
LeftView == [left |-> 0 - 1100, top |-> 0, right |-> 0 - 100, bottom |-> 600]

Views == {WholeView, RightView}

\* the list of the two cards, and a list of card B alone
Layouts == {LaidOut, <<SpriteData("B", 0, 0, FALSE)>>}

\* the pointer on card A, between the cards and on card B
ViewPoints == {Pt(50, 80), Pt(105, 80), Pt(160, 80)}

\* gestures of one pointer while the view changes and the list is rebuilt
NextView ==
    \/ \E e \in Plain(Events(ViewPoints, {0})) : Press(e)
    \/ \E e \in Plain(Events(ViewPoints, {0})) : Drag(e)
    \/ \E e \in Plain(Events(ViewPoints, {0})) : Release(e)
    \/ Tick(TimeStep)
    \/ \E view \in Views : HandleViewportChange(view)
    \/ CullingTimer
    \/ \E layout \in Layouts : SetCards(layout)

\* the initialized scene before the first card list arrives
InitEmpty == InitWith(StageOf(<<>>))

SpecView == InitEmpty /\ [][NextView]_vars

\* a scene of three cards whose view changes, until and after its teardown
NextTeardown ==
    \/ SetCards(LaidOut3(TRUE))
    \/ \E view \in {WholeView, LeftView} : HandleViewportChange(view)
    \/ CullingTimer
    \/ Destroy
    \/ \E slug \in 1 .. Len(LaidOut3(TRUE)) :
            (LoadSucceeds(slug) \/ LoadFails(slug)) /\ UNCHANGED stageVars
    \/ Tick(TimeStep)

SpecTeardown == InitEmpty /\ [][NextTeardown]_vars

(***************************************************************************)
(* The throttle of the culling: viewport changes at any time, on a clock   *)
(* read every ThrottleStep ms. A timer that is due fires, and time goes    *)
(* on.                                                                     *)
(***************************************************************************)
ThrottleStep == 10

NextThrottle ==
    \/ \E view \in {WholeView, RightView, LeftView} : HandleViewportChange(view)
    \/ CullingTimer
    \/ Tick(ThrottleStep)

SpecThrottle ==
    /\ Init
    /\ [][NextThrottle]_vars
    /\ WF_vars(CullingTimer)
    /\ WF_vars(Tick(ThrottleStep))

(***************************************************************************)
(* The camera on its own: the viewport's events, window resizes and        *)
(* fitToContent.  lastOp.branch records what the listeners were told.      *)
(***************************************************************************)
CameraDoes(ev, out) ==
    /\ camera' = out.camera
    /\ lastOp' = SceneOp(ev, IF out.zoom # 0 /\ out.viewport THEN "zoom+viewport"
                             ELSE IF out.zoom # 0 THEN "zoom"
                             ELSE IF out.viewport THEN "viewport" ELSE "none")
    /\ UNCHANGED <<stage, pointer, app>>
    /\ UNCHANGED lodVars

Zooms == {50, 100, 200}
Pans == {-500, 500}
PanRange == 1000
Screens == {[width |-> 100, height |-> 60], [width |-> 200, height |-> 60]}
Contents == {[left |-> 0, top |-> 0, right |-> 800, bottom |-> 400],
             [left |-> 0, top |-> 0, right |-> 100, bottom |-> 100],
             [left |-> 0, top |-> 0, right |-> 9800, bottom |-> 5800]}

ViewportZoomed(scale) == scale # camera.scale /\ CameraDoes("zoomed", viewportZoomed(camera, scale))

ViewportMoved(dx) ==
    /\ CentreX(camera.view) + dx \in (0 - PanRange) .. PanRange
    /\ CameraDoes("moved", viewportMoved(camera, dx))

ViewportAnimated ==
    /\ camera.animation # NoAnimation
    /\ viewportAnimated(camera).camera.view # camera.view
    /\ CameraDoes("animated", viewportAnimated(camera))

WindowResize(screen) == screen # camera.screen /\ CameraDoes("resize", handleResize(camera, screen))

FitToContent(bounds) == CameraDoes("fitToContent", fitToContent(camera, bounds, 100))

NextCamera ==
    \/ \E scale \in Zooms : ViewportZoomed(scale)
    \/ \E dx \in Pans : ViewportMoved(dx)
    \/ ViewportAnimated
    \/ \E screen \in Screens : WindowResize(screen)
    \/ \E bounds \in Contents : FitToContent(bounds)

SpecCamera == Init /\ [][NextCamera]_vars

(***************************************************************************)
(* The deck editor: actions dispatched to appReducer.                      *)
(***************************************************************************)
RECURSIVE Copies(_)
Copies(board) == IF board = <<>> THEN 0 ELSE Head(board).quantity + Copies(Tail(board))

BoardNames == {"mainboard", "sideboard", "avatar", "maybeboard"}

RECURSIVE CopiesIn(_, _)
CopiesIn(S, ids) ==
    IF ids = {} THEN 0
    ELSE LET id == CHOOSE x \in ids : TRUE
         IN  Copies(S.decks[id].mainboard) + Copies(S.decks[id].sideboard)
             + Copies(S.decks[id].avatar) + Copies(S.decks[id].maybeboard)
             + CopiesIn(S, ids \ {id})

MaxDeckCards == 3

\* what the action did to the number of entries of the active board
EntriesChange(S, R) ==
    IF ~ S.loaded \/ S.activeDeckId \notin DOMAIN S.decks THEN "none"
    ELSE LET before == Len(S.decks[S.activeDeckId][S.activeBoard])
             after == Len(R.decks[S.activeDeckId][S.activeBoard])
         IN  IF after < before THEN "deleted" ELSE IF after > before THEN "created" ELSE "kept"

Dispatch(action) ==
    /\ app' = appReducer(app, action)
    /\ lastOp' = SceneOp(action.type, EntriesChange(app, app'))
    /\ UNCHANGED <<stage, camera, pointer>>
    /\ UNCHANGED lodVars

EditorActions ==
    {[type |-> "SET_USER_DATA", decks |-> [id \in {"d1", "d2"} |-> EmptyBoards]]}
    \cup [type : {"SET_ACTIVE_DECK"}, deckId : {NoId, "d1", "d2"}]
    \cup [type : {"SET_ACTIVE_BOARD"}, board : {"mainboard", "sideboard"}]
    \cup [type : {"ADD_CARD_TO_DECK", "REMOVE_CARD_FROM_DECK"}, cardName : {"A", "B"}]

NextEditor ==
    \E action \in EditorActions :
        /\ action.type = "ADD_CARD_TO_DECK" => CopiesIn(app, DOMAIN app.decks) < MaxDeckCards
        /\ action.type = "SET_USER_DATA" => ~ app.loaded
        /\ Dispatch(action)

SpecEditor == Init /\ [][NextEditor]_vars

(***************************************************************************)
(* Deck overlays.                                                          *)
(***************************************************************************)
\* the quantities of the entries of a board that carry the name, added up
RECURSIVE SumQuantity(_, _)
SumQuantity(board, name) ==
    IF board = <<>> THEN 0
    ELSE (IF Head(board).name = name THEN Head(board).quantity ELSE 0)
         + SumQuantity(Tail(board), name)

\* a null deck counts as a deck whose boards are empty
deckQuantities(deck, name) ==
    SumQuantity(deck.mainboard, name) + SumQuantity(deck.sideboard, name)
        + SumQuantity(deck.avatar, name)

\* Map.set per item: the last item of a name gives its quantity, 0 without one
collectionQuantities(collection, name) ==
    LET at == {i \in DOMAIN collection : collection[i].name = name}
    IN  IF at = {} THEN 0
        ELSE collection[CHOOSE i \in at : \A j \in at : j <= i].quantity

quantityColorByRemaining(deckQty, collectionQty, hasCollection) ==
    IF hasCollection /\ deckQty > 0
    THEN IF deckQty > collectionQty THEN "red"
         ELSE IF deckQty = collectionQty THEN "black" ELSE "white"
    ELSE "white"

quantityColor(deckQty, collectionQty, hasCollection) ==
    IF hasCollection /\ deckQty > 0
    THEN IF deckQty > collectionQty THEN "red"
         ELSE IF collectionQty = 0 THEN "black" ELSE "white"
    ELSE "white"

\* CardSprite.updateState: text and fill change only while the overlay shows
updateState(d, quantity, color) ==
    IF quantity > 0
    THEN [d EXCEPT !.overlayVisible = TRUE, !.quantityText = quantity, !.quantityFill = color]
    ELSE [d EXCEPT !.overlayVisible = FALSE]

updateDeckOverlays(T, deck, collection) ==
    [T EXCEPT !.cardSprites = [c \in CardsOf(T) |->
        updateState(T.cardSprites[c], deckQuantities(deck, c),
                    quantityColor(deckQuantities(deck, c),
                                  collectionQuantities(collection, c),
                                  Len(collection) > 0))]]

MaxQuantity == 1
MaxOwned == 2

\* a board or a collection: at most one entry, of at most n copies
Lists(n) == {<<>>} \cup {<<entry>> : entry \in [name : {"A", "B"}, quantity : 1 .. n]}

Collections == Lists(MaxOwned)

Decks ==
    [mainboard : Lists(MaxQuantity), sideboard : Lists(MaxQuantity),
     avatar : Lists(MaxQuantity),
     maybeboard : {<<>>, <<[name |-> "A", quantity |-> MaxOwned]>>}]

UpdateDeckOverlays(deck, collection) ==
    /\ stage' = updateDeckOverlays(stage, deck, collection)
    /\ lastOp' = SceneOp("overlays", "none")
    /\ UNCHANGED <<camera, pointer, app>>
    /\ UNCHANGED lodVars

NextOverlay ==
    \E deck \in Decks, collection \in Collections : UpdateDeckOverlays(deck, collection)

SpecOverlay == Init /\ [][NextOverlay]_vars

(***************************************************************************)
(* calculateCardLayout. A card of the list is [name, type, thresholdGroup, *)
(* cost]; an entry of the layout adds position and isLandscape.            *)
(***************************************************************************)
THRESHOLD_GROUP_ORDER == <<"air", "earth", "fire", "water", "multiple", "none">>
TYPE_ORDER == <<"Minion", "Magic", "Aura", "Artifact", "Site">>
GROUP_GAP_UNITS == 4
SUBGROUP_GAP_UNITS == 1
CARDS_PER_ROW_SPELL == 12
CARDS_PER_ROW_SITE == 8
CARDS_PER_ROW_AVATAR == 12

getCardCellSizeSquare(isLandscape) == [width |-> 2, height |-> 2]

getCardCellSize(isLandscape) ==
    IF isLandscape THEN [width |-> 3, height |-> 2] ELSE [width |-> 2, height |-> 3]

MathCeil(n, d) == (n + d - 1) \div d

\* the card goes before the first card of equal or greater cost
InsertFirst(sorted, card) ==
    LET before == SelectSeq(sorted, LAMBDA c : c.cost < card.cost)
    IN  before \o <<card>> \o SubSeq(sorted, Len(before) + 1, Len(sorted))

\* the card goes behind the cards of smaller or equal cost
InsertByCost(sorted, card) ==
    LET before == SelectSeq(sorted, LAMBDA c : c.cost <= card.cost)
    IN  before \o <<card>> \o SubSeq(sorted, Len(before) + 1, Len(sorted))

\* [...typeCards].sort((a, b) => a.cost - b.cost): a stable sort
RECURSIVE SortByCost(_)
SortByCost(cards) ==
    IF cards = <<>> THEN <<>>
    ELSE InsertByCost(SortByCost(SubSeq(cards, 1, Len(cards) - 1)), cards[Len(cards)])

\* the entries of one row-major block of cards from grid cell (gridX, gridY)
PlaceRows(cards, gridX, gridY, isLandscape, cardsPerRow) ==
    [i \in 1 .. Len(cards) |->
        [name |-> cards[i].name,
         position |->
            [x |-> (gridX + ((i - 1) % cardsPerRow) * getCardCellSize(isLandscape).width)
                        * GRID_UNIT,
             y |-> (gridY + MathFloor(i - 1, cardsPerRow) * getCardCellSize(isLandscape).height)
                        * GRID_UNIT],
         isLandscape |-> isLandscape]]

\* the type buckets of one threshold group from type t on: the entries and
\* the greatest width of a bucket, in cells
RECURSIVE LayoutTypes(_, _, _, _)
LayoutTypes(thresholdCards, t, currentGridX, currentGridY) ==
    IF t > Len(TYPE_ORDER) THEN [entries |-> <<>>, width |-> 0]
    ELSE LET typeCards == SelectSeq(thresholdCards, LAMBDA c : c.type = TYPE_ORDER[t])
             isLandscape == TYPE_ORDER[t] = "Site"
             cardsPerRow == IF isLandscape THEN CARDS_PER_ROW_SITE ELSE CARDS_PER_ROW_SPELL
             cellSize == getCardCellSize(isLandscape)
             rows == MathCeil(Len(typeCards), cardsPerRow)
             rest == LayoutTypes(thresholdCards, t + 1, currentGridX,
                        IF typeCards = <<>> THEN currentGridY
                        ELSE currentGridY + rows * cellSize.height + SUBGROUP_GAP_UNITS)
         IN  [entries |-> PlaceRows(SortByCost(typeCards), currentGridX, currentGridY,
                                    isLandscape, cardsPerRow) \o rest.entries,
              width |-> Max(Min(Len(typeCards), cardsPerRow) * cellSize.width, rest.width)]

\* the threshold groups from group g on, and the column that follows them
RECURSIVE LayoutGroups(_, _, _)
LayoutGroups(nonAvatars, g, currentGridX) ==
    IF g > Len(THRESHOLD_GROUP_ORDER) THEN [entries |-> <<>>, gridX |-> currentGridX]
    ELSE LET thresholdCards ==
                SelectSeq(nonAvatars, LAMBDA c : c.thresholdGroup = THRESHOLD_GROUP_ORDER[g])
             group == LayoutTypes(thresholdCards, 1, currentGridX, 0)
             rest == LayoutGroups(nonAvatars, g + 1,
                        IF thresholdCards = <<>> THEN currentGridX
                        ELSE currentGridX + group.width + GROUP_GAP_UNITS)
         IN  [entries |-> group.entries \o rest.entries, gridX |-> rest.gridX]

\* calculateCardLayout with the avatars grouped like the other cards
calculateCardLayoutAllGrouped(cards) == LayoutGroups(cards, 1, 0).entries

\* avatars of the list have no set and no rarity: their sort keeps the order
calculateCardLayout(cards) ==
    LET avatars == SelectSeq(cards, LAMBDA c : c.type = "Avatar")
        groups == LayoutGroups(SelectSeq(cards, LAMBDA c : c.type # "Avatar"), 1, 0)
    IN  groups.entries \o PlaceRows(avatars, groups.gridX, 0, FALSE, CARDS_PER_ROW_AVATAR)

\* the sprite data rebuildCardSprites makes of the layout
SpritesOf(layout) ==
    [i \in DOMAIN layout |->
        SpriteData(layout[i].name, layout[i].position.x, layout[i].position.y,
                   layout[i].isLandscape)]

MaxCost == 2

AllTypes == SeqToSet(TYPE_ORDER) \cup {"Avatar"}

\* the lists of n cards, the i-th named CardIds[i], of the given kinds
ListsOf(n, groups, types, costs) ==
    {[i \in 1 .. n |-> [name |-> CardIds[i], type |-> k[i].type,
                         thresholdGroup |-> k[i].thresholdGroup, cost |-> k[i].cost]] :
        k \in [1 .. n -> [type : types, thresholdGroup : groups, cost : costs]]}

\* n cards of one bucket, all of the greatest cost but at most two
FewCheap(n, group, type) ==
    {[i \in 1 .. n |-> [name |-> CardIds[i], type |-> type, thresholdGroup |-> group,
                         cost |-> IF i \in cheap THEN 1 ELSE MaxCost]] :
        cheap \in {c \in SUBSET (1 .. n) : Cardinality(c) <= 2}}

\* up to two cards of any kind, three cards of two groups and two types, a
\* type bucket of sites and one of spells that take more than a row
CardLists ==
    UNION {ListsOf(n, SeqToSet(THRESHOLD_GROUP_ORDER), AllTypes, 1 .. MaxCost) : n \in 0 .. 2}
    \cup ListsOf(3, {"air", "earth"}, {"Minion", "Site"}, {1})
    \cup ListsOf(CARDS_PER_ROW_SITE + 1, {"air"}, {"Site"}, 1 .. MaxCost)
    \cup FewCheap(CARDS_PER_ROW_SPELL + 1, "water", "Magic")

\* the scene is constructed and setCards has left a list for initialize()
InitLayout ==
    \E cards \in CardLists :
        InitWith([isInitialized |-> FALSE, cards |-> <<>>, pendingCards |-> cards]
                     @@ StageOf(<<>>))

\* initialize() completes: the pending list is laid out and the sprites built
Initialize ==
    /\ ~ stage.isInitialized
    /\ LET T == [stage EXCEPT !.isInitialized = TRUE, !.cards = stage.pendingCards,
                              !.pendingCards = <<>>]
       IN  IF T.cards = <<>>
           THEN stage' = T /\ UNCHANGED <<lod, preloads>>
           ELSE Cull(rebuildCardSprites(T, SpritesOf(calculateCardLayout(T.cards))),
                     camera, FALSE)
    /\ lastOp' = SceneOp("initialize", "rebuilt")
    /\ UNCHANGED <<camera, pointer, app, failedSinceClear, revealed>>

NextLayout == Initialize

SpecLayout == InitLayout /\ [][NextLayout]_vars

\* up to two cards whose type or threshold group may be none that the layout
\* knows ("Relic", "void")
OddLists ==
    UNION {ListsOf(n, {"air", "void"}, {"Minion", "Avatar", "Relic"}, 1 .. MaxCost) :
                n \in 0 .. 2}

InitOdd ==
    \E cards \in OddLists :
        InitWith([isInitialized |-> FALSE, cards |-> <<>>, pendingCards |-> cards]
                     @@ StageOf(<<>>))

SpecOdd == InitOdd /\ [][NextLayout]_vars


(***************************************************************************)
(* Start-up: the constructor has called initialize(), which waits for      *)
(* app.init; setCards and destroy may come before it resumes.              *)
(* stage.pendingCards is empty for null and holds the pending list         *)
(* otherwise; stage.hasCamera tells whether this.camera is set.  History:  *)
(* stage.supplied holds the list of the last setCards call, stage.builds   *)
(* the lists rebuildCardSprites has been run for.                          *)
(***************************************************************************)
MaxBuilds == 2

StartupLists ==
    {<<>>} \cup ListsOf(1, {"air"}, {"Minion"}, {1})
           \cup ListsOf(2, {"air"}, {"Minion", "Site"}, {1})

InitStartup ==
    InitWith([isInitialized |-> FALSE, initAwaited |-> TRUE, hasCamera |-> FALSE,
              cards |-> <<>>, pendingCards |-> <<>>, supplied |-> <<>>, builds |-> <<>>]
                 @@ StageOf(<<>>))

\* this.cards = cards; rebuildCardSprites() up to its culling pass
BuildOf(T, cards) ==
    [rebuildCardSprites([T EXCEPT !.cards = cards], SpritesOf(calculateCardLayout(cards)))
        EXCEPT !.builds = Append(@, cards)]

\* initialize() after its await, without the test of isDestroyed
initializeResumedAnyway(T) ==
    LET R == [T EXCEPT !.initAwaited = FALSE, !.hasCamera = TRUE, !.isInitialized = TRUE]
    IN  IF R.pendingCards = <<>> THEN R
        ELSE BuildOf([R EXCEPT !.pendingCards = <<>>], R.pendingCards[1])

\* initialize() after its await, up to the culling pass of the rebuild
initializeResumed(T) ==
    IF T.isDestroyed THEN [T EXCEPT !.initAwaited = FALSE]
    ELSE LET R == [T EXCEPT !.initAwaited = FALSE, !.hasCamera = TRUE, !.isInitialized = TRUE]
         IN  IF R.pendingCards = <<>> THEN R
             ELSE BuildOf([R EXCEPT !.pendingCards = <<>>], R.pendingCards[1])

\* setCards up to the culling pass of the rebuild
setCards(T, cards) ==
    IF ~ T.isInitialized THEN [T EXCEPT !.pendingCards = <<cards>>, !.supplied = <<cards>>]
    ELSE BuildOf([T EXCEPT !.supplied = <<cards>>], cards)

\* the stage after a method, and the culling pass if the method rebuilt
ThenCull(T) ==
    IF T.builds = stage.builds THEN stage' = T /\ UNCHANGED <<lod, preloads>>
    ELSE Cull(T, camera, FALSE)

InitializeResumes ==
    /\ stage.initAwaited
    /\ ThenCull(initializeResumed(stage))
    /\ lastOp' = SceneOp("initialize", IF stage'.isInitialized THEN "ready" ELSE "dropped")
    /\ UNCHANGED <<camera, pointer, app, failedSinceClear, revealed>>

SetCardsCall(cards) ==
    /\ ~ (stage.isInitialized /\ stage.isDestroyed)
    /\ Len(stage.builds) < MaxBuilds
    /\ ThenCull(setCards(stage, cards))
    /\ lastOp' = SceneOp("setCards", IF stage.isInitialized THEN "rebuilt" ELSE "queued")
    /\ UNCHANGED <<camera, pointer, app, failedSinceClear, revealed>>

DestroyCall ==
    /\ ~ stage.isDestroyed
    /\ stage' = [stage EXCEPT !.isDestroyed = TRUE]
    /\ IF stage.isInitialized
       THEN /\ camera' = destroyCamera(camera)
            /\ lod' = clearCache(lod)
            /\ failedSinceClear' = {}
       ELSE UNCHANGED <<camera, lod, failedSinceClear>>
    /\ lastOp' = SceneOp("destroy", IF stage.isInitialized THEN "ready" ELSE "early")
    /\ UNCHANGED <<preloads, pointer, app, revealed>>

NextStartup ==
    \/ InitializeResumes
    \/ \E cards \in StartupLists : SetCardsCall(cards)
    \/ DestroyCall

SpecStartup == InitStartup /\ [][NextStartup]_vars

(***************************************************************************)
(* The cache under arbitrary callers: getTexture and preloadTextures for   *)
(* any of NumSlugs cards, loads that succeed or fail in any order,         *)
(* clearCache at any time.                                                 *)
(***************************************************************************)
\* the cards of a subset, as the list of their names
RECURSIVE NamesOf(_)
NamesOf(ids) ==
    IF ids = {} THEN <<>>
    ELSE LET m == CHOOSE x \in ids : \A y \in ids : x <= y
         IN  <<[form |-> "name", id |-> m]>> \o NamesOf(ids \ {m})

CacheStep ==
    \/ \E key \in Keys(1 .. NumSlugs) : GetTextureCall(key)
    \/ \E ids \in SUBSET (1 .. NumSlugs) : PreloadCall(NamesOf(ids))
    \/ \E slug \in 1 .. NumSlugs : LoadSucceeds(slug)
    \/ \E slug \in 1 .. NumSlugs : LoadFails(slug)
    \/ ClearCache

NextLOD == CacheStep /\ UNCHANGED stageVars

SpecLOD == Init /\ [][NextLOD]_vars

(***************************************************************************)
(* The preload pool against a loader that counts the loads in flight:      *)
(* culling passes preload the next cards of the list, the loops' timers    *)
(* fire at any time, and the loader finishes its oldest load first.        *)
(***************************************************************************)
InFlight(L) == {s \in Slugs : L.assetLoads[s] > 0}

CallSizes == {1, CONCURRENT_LOADS, PRELOAD_BATCH_SIZE + 1}

PreloadStep ==
    \/ \E n \in CallSizes : CullingPreload(n)
    \/ \E p \in 1 .. MaxPreloads : loadNext(p)
    \/ \E slug \in InFlight(lod) :
            /\ \A t \in InFlight(lod) : slug <= t
            /\ LoadSucceeds(slug)

NextPreload == PreloadStep /\ UNCHANGED stageVars

SpecPreload == Init /\ [][NextPreload]_vars

(***************************************************************************)
(* Properties of the texture cache.                                        *)
(***************************************************************************)
RECURSIVE SumLoads(_, _)
SumLoads(L, ids) ==
    IF ids = {} THEN 0
    ELSE LET s == CHOOSE x \in ids : TRUE
         IN  L.assetLoads[s] + SumLoads(L, ids \ {s})

\* C1: under any interleaving of getTexture calls, preload calls and load
\* completions at most one Assets.load is in flight per slug; a getTexture call
\* that finds the slug loading starts no load, waits on the load in flight and
\* settles in the task in which the call that started it settles, with the
\* texture exactly when that call gets the texture.
C1_OneLoadPerSlug ==
    /\ \A s \in Slugs : lod.assetLoads[s] <= 1
    /\ \A r \in lod.pending :
            r.role = "coalesced" =>
                /\ lod.assetLoads[r.slug] = 1
                /\ \E q \in lod.pending : q.slug = r.slug /\ q.role = "starter"
    /\ \A r \in lod.settled :
            r.role = "coalesced" =>
                \E q \in lod.settled :
                    /\ q.slug = r.slug
                    /\ q.role = "starter"
                    /\ (q.result = "texture") <=> (r.result = "texture")

\* a getTexture call is waiting on a load another call started
C1_Witness ==
    \E r \in lod.pending : r.role = "coalesced" /\ lod.assetLoads[r.slug] = 1

\* C2: the loads in flight on behalf of preloadTextures never exceed
\* CONCURRENT_LOADS, for any number of candidate keys and for overlapping
\* preload calls of successive culling passes.
C2_PreloadCap == SumLoads(lod, Slugs) <= CONCURRENT_LOADS

\* C3: once a load for K has failed, until clearCache no load for K is in
\* flight, no call is left waiting on K, and every later getTexture for K
\* settles at once to the placeholder.
C3_NoRetryAfterFailure ==
    \A K \in failedSinceClear :
        /\ lod.assetLoads[K] = 0
        /\ PendingOn(lod, K) = {}
        /\ \A r \in lod.settled :
                (r.slug = K /\ r.role = "immediate") => r.result = "placeholder"

\* a getTexture call for a slug that failed earlier has settled to the placeholder
C3_Witness ==
    \E r \in lod.settled :
        /\ r.slug \in failedSinceClear
        /\ r.role = "immediate"
        /\ r.result = "placeholder"

\* C4: when a load fails every getTexture call waiting on the key settles to
\* the placeholder; no getTexture call completes with an error.
C4_NoCallFails == \A r \in lod.settled : r.result # "error"

(***************************************************************************)
(* Properties of the pointer state machine.                                *)
(***************************************************************************)

\* C5: under any sequence of pointer events, with any buttons and modifiers,
\* the selection box and the card drag are never active together.
C5_OneModeAtATime == ~ (stage.selectionBox.isActive /\ stage.dragState.isDragging)

\* C6: after every left pointer-up neither a selection box nor a card drag is
\* active and the camera's drag is resumed.
C6_LeftUpEndsGesture ==
    (lastOp.ev = "up" /\ lastOp.button = 0) =>
        /\ ~ stage.selectionBox.isActive
        /\ ~ stage.dragState.isDragging
        /\ ~ camera.dragPaused

\* the card is on the grid: base and drawn position are multiples of the grid
\* unit and the stacking key is the cell of the base position
OnGrid(d) ==
    /\ d.basePosition.x % GRID_UNIT = 0
    /\ d.basePosition.y % GRID_UNIT = 0
    /\ d.x % GRID_UNIT = 0
    /\ d.y % GRID_UNIT = 0
    /\ d.gridKey = <<pixelsToGrid(d.basePosition.x, d.basePosition.y).x,
                     pixelsToGrid(d.basePosition.x, d.basePosition.y).y>>

\* C7: the pointer-up that releases a card drag leaves every dragged card with
\* base position and drawn position on multiples of the grid unit on both axes
\* and with the stacking key of its base position's cell.
C7_ReleaseSnapsToGrid ==
    [][(/\ stage.dragState.isDragging
        /\ ~ stage.selectionBox.isActive
        /\ lastOp'.ev = "up"
        /\ lastOp'.branch = "drag")
       => \A c \in stage.dragState.draggedCards \cap CardsOf(stage') :
                OnGrid(stage'.cardSprites[c])]_vars

\* a drag has been released and has left a card off the place the layout gave it
C7_Witness ==
    /\ lastOp.ev = "up"
    /\ lastOp.branch = "drag"
    /\ \E i \in DOMAIN LaidOut :
            stage.cardSprites[LaidOut[i].name].basePosition
                # [x |-> LaidOut[i].x, y |-> LaidOut[i].y]

\* the rectangles share a point
Overlaps(b, box) ==
    /\ b.left <= box.right
    /\ box.left <= b.right
    /\ b.top <= box.bottom
    /\ box.top <= b.bottom

\* C8: wherever the pointer is released while the selection box is active:
\* when the box from its start to that place is wider or taller than 10 the
\* selection becomes exactly the cards whose bounds meet the box, otherwise it
\* stays what pointer-down left it.
C8_BoxSelection ==
    (stage.selectionBox.isActive /\ pointer.held) =>
        \A e \in Plain(Events(DragPoints, {0})) :
            \A start \in stage.selectionBox.startWorldPos :
                LET after == onPointerUp(stage, camera, e).stage
                IN  IF Abs(e.pos.x - start.x) > 10 \/ Abs(e.pos.y - start.y) > 10
                    THEN after.selectedCards =
                            {c \in CardsOf(stage) :
                                Overlaps(stage.cardSprites[c].bounds,
                                         [left |-> Min(start.x, e.pos.x),
                                          right |-> Max(start.x, e.pos.x),
                                          top |-> Min(start.y, e.pos.y),
                                          bottom |-> Max(start.y, e.pos.y)])}
                    ELSE after.selectedCards = stage.selectedCards

\* a box has been released over both cards and has selected them
C8_Witness ==
    /\ lastOp.ev = "up"
    /\ lastOp.branch = "box"
    /\ stage.selectedCards = CardsOf(stage)

\* the handler's outcome differs from the present state by c's membership in
\* the selection and starts no box, no drag and no pause of the camera
Toggles(c, out) ==
    /\ (c \in out.stage.selectedCards) <=> (c \notin stage.selectedCards)
    /\ Cardinality(out.stage.selectedCards) - Cardinality(stage.selectedCards)
            \in {0 - 1, 1}
    /\ \A d \in CardsOf(stage) \ {c} :
            (d \in out.stage.selectedCards) <=> (d \in stage.selectedCards)
    /\ out.stage.selectionBox.isActive = stage.selectionBox.isActive
    /\ out.stage.dragState.isDragging = stage.dragState.isDragging
    /\ out.camera.dragPaused = camera.dragPaused

\* C9 as stated: every shift + left pointer-down on a card toggles that card's
\* membership, changes the size of the selection by one, changes no other
\* card's membership, starts no box or drag and does not pause the camera.
C9_ShiftDownToggles ==
    \A e \in Events(ClickPoints, {0}) :
        LET c == getCardAtPosition(stage, e.pos)
        IN  (e.shiftKey /\ c # NoCard) => Toggles(c, onPointerDown(stage, camera, e))

\* C9 amended: a shift + left pointer-down on a card that is not the second
\* click of a double-click (the same card clicked again within
\* DOUBLE_CLICK_TIME_MS) toggles that card's membership and nothing else.
C9_ShiftDownTogglesUnlessDouble ==
    \A e \in Events(ClickPoints, {0}) :
        LET c == getCardAtPosition(stage, e.pos)
        IN  (/\ e.shiftKey
             /\ c # NoCard
             /\ ~ (/\ Now - stage.lastClickTime < DOUBLE_CLICK_TIME_MS
                   /\ stage.lastClickedCard = c))
            => Toggles(c, onPointerDown(stage, camera, e))

\* a shift-click has added a second card to the selection
C9_Witness ==
    /\ lastOp.ev = "down"
    /\ lastOp.branch = "toggle"
    /\ Cardinality(stage.selectedCards) = 2

\* C10: a left pointer-down without modifier on a card that is selected,
\* followed by the pointer-up at the same place with no move in between,
\* leaves that card out of the selection.
C10_ClickDeselects ==
    [][\A e \in Plain(Events(DragPoints, {0})) :
        (/\ lastOp.ev = "down"
         /\ lastOp.branch = "drag"
         /\ e.pos = stage.dragState.startWorldPos
         /\ lastOp'.ev = "up"
         /\ stage' = onPointerUp(stage, camera, e).stage)
        => stage.lastClickedCard \notin stage'.selectedCards]_vars

\* C11: a left pointer-down on a card less than 300 ms after the previous click
\* on that card makes the add-to-deck notification for that card and leaves
\* the selection, the box, the drag, the stacks, the sprites and the camera's
\* pause as they were.
C11_DoubleClickAddsOnly ==
    \A e \in Events(ClickPoints, {0}) :
        LET c == getCardAtPosition(stage, e.pos)
            out == onPointerDown(stage, camera, e)
        IN  (c # NoCard /\ stage.lastClickedCard = c /\ Now - stage.lastClickTime < 300)
            => /\ out.notify = [kind |-> "add", card |-> c]
               /\ out.stage.selectedCards = stage.selectedCards
               /\ out.stage.selectionBox = stage.selectionBox
               /\ out.stage.dragState = stage.dragState
               /\ out.stage.cardStacks = stage.cardStacks
               /\ out.stage.cardSprites = stage.cardSprites
               /\ out.camera = camera

\* a double-click has just asked to add its card to the deck
C11_Witness ==
    /\ lastOp.ev = "down"
    /\ lastOp.branch = "double"
    /\ lastOp.notify = [kind |-> "add", card |-> stage.lastClickedCard]

\* C12: a right click (right pointer-up) on a card less than 300 ms after the
\* previous right click, when that was on the same card, makes the
\* remove-from-deck notification for the card; every other right click makes
\* no notification.
C12_RemoveOnSecondRightClick ==
    \A e \in Plain(Events(ClickPoints, {2})) :
        LET c == getCardAtPosition(stage, e.pos)
            out == onPointerUp(stage, camera, e)
        IN  IF c # NoCard /\ pointer.rightCard = c /\ Now - pointer.rightTime < 300
            THEN out.notify = [kind |-> "remove", card |-> c]
            ELSE out.notify.kind = "none"

Idle == ~ stage.selectionBox.isActive /\ ~ stage.dragState.isDragging

\* C13: when neither a box nor a drag is in progress, the buckets partition the
\* cards by cell, and the card at index i (from 0) of a bucket of n cards is
\* drawn at its base x, at base y plus i*U - (n-1)*U/2 for a portrait card and
\* minus that for a landscape card (U the stack offset), with z-index i.
C13_IdleStacksCentred ==
    Idle =>
        /\ \A c \in CardsOf(stage) : stage.cardSprites[c].gridKey \in DOMAIN stage.cardStacks
        /\ \A key \in DOMAIN stage.cardStacks :
              LET bucket == stage.cardStacks[key]
                  n == Len(bucket)
              IN  /\ n >= 1
                  /\ SeqToSet(bucket) = {c \in CardsOf(stage) : stage.cardSprites[c].gridKey = key}
                  /\ \A i \in 0 .. n - 1 :
                        LET d == stage.cardSprites[bucket[i + 1]]
                            offset == i * STACK_OFFSET - ((n - 1) * STACK_OFFSET) \div 2
                        IN  /\ d.x = d.basePosition.x
                            /\ d.y - d.basePosition.y =
                                  IF d.isLandscape THEN 0 - offset ELSE offset
                            /\ d.zIndex = i
                            /\ n = 1 => d.y = d.basePosition.y
                            /\ (n = 3 /\ ~ d.isLandscape) =>
                                  d.y - d.basePosition.y \in {0 - STACK_OFFSET, 0, STACK_OFFSET}

\* a drop has just made a bucket of three with a landscape card in it
C13_Witness ==
    /\ Idle
    /\ lastOp.ev = "up" /\ lastOp.branch = "drag"
    /\ \E key \in DOMAIN stage.cardStacks :
          /\ Len(stage.cardStacks[key]) = 3
          /\ \E c \in SeqToSet(stage.cardStacks[key]) : stage.cardSprites[c].isLandscape

\* the buckets a drop has just left with three cards
DroppedThrees ==
    {key \in DOMAIN stage.cardStacks :
        /\ lastOp.ev = "up" /\ lastOp.branch = "drag" /\ Idle
        /\ Len(stage.cardStacks[key]) = 3
        /\ stage.lastClickedCard \in SeqToSet(stage.cardStacks[key])}

RenderedOffsets(bucket) ==
    {stage.cardSprites[c].y - stage.cardSprites[c].basePosition.y : c \in SeqToSet(bucket)}

\* C14: when a drop puts a third card on a cell, the three cards are one bucket,
\* they are drawn at three different offsets, and the card just dropped is the
\* last (topmost) entry of the bucket.
C14_ThreeOnOneCell ==
    \A key \in DroppedThrees :
        LET bucket == stage.cardStacks[key]
        IN  /\ \A c \in CardsOf(stage) :
                  stage.cardSprites[c].gridKey = key <=> c \in SeqToSet(bucket)
            /\ Cardinality(RenderedOffsets(bucket)) = 3
            /\ bucket[3] = stage.lastClickedCard

\* the visible cards whose bounds contain the point
VisibleAt(point) ==
    {c \in CardsOf(stage) :
        stage.cardSprites[c].visible /\ pointInBounds(point, stage.cardSprites[c].bounds)}

\* c is drawn after d: the container draws its children by zIndex, children
\* of equal zIndex in the order they were added
DrawnOver(c, d) ==
    \/ stage.cardSprites[c].zIndex > stage.cardSprites[d].zIndex
    \/ /\ stage.cardSprites[c].zIndex = stage.cardSprites[d].zIndex
       /\ IndexOf(stage.cardOrder, c) > IndexOf(stage.cardOrder, d)

\* C15: the hit test at a point gives none when no visible card's bounds
\* contain the point, and otherwise a visible card whose bounds contain it and
\* which is drawn over every other visible card whose bounds contain it.
C15_HitIsTopmostVisible ==
    \A point \in ViewPoints :
        LET hit == getCardAtPosition(stage, point)
        IN  IF VisibleAt(point) = {} THEN hit = NoCard
            ELSE /\ hit \in VisibleAt(point)
                 /\ \A d \in VisibleAt(point) \ {hit} : DrawnOver(hit, d)

\* the scene is as it was, but for the time that has passed
SceneUntouched ==
    /\ stage' = [stage EXCEPT !.lastClickTime = stage'.lastClickTime,
                              !.lastCullingUpdate = stage'.lastCullingUpdate]
    /\ stage'.lastCullingUpdate <= stage.lastCullingUpdate

\* C16: once the scene is destroyed, no step changes its visible set, its
\* sprites, its culling timer or its culling time (no culling pass runs and
\* no viewport change is taken up), no texture load starts, and the texture
\* cache is empty.
C16_NothingAfterDestroy ==
    [][stage.isDestroyed =>
        /\ SceneUntouched
        /\ \A slug \in Slugs : lod'.assetLoads[slug] <= lod.assetLoads[slug]
        /\ lod.cache = {}
        /\ lod'.cache = {}]_vars

\* C17: whatever the state setCards finds, after it the sprite map has exactly
\* the cards of the new layout, nothing is selected, the visible set and the
\* stacking buckets hold cards of the new layout only, and no drag or box of
\* before is in effect: no dragged card, no recorded start position, no
\* active box.
C17_RebuildReplacesAll ==
    \A layout \in Layouts :
        LET names == {layout[i].name : i \in DOMAIN layout}
            T == performCulling(rebuildCardSprites(stage, layout), camera).stage
        IN  /\ CardsOf(T) = names
            /\ T.selectedCards = {}
            /\ \A c \in names : ~ T.cardSprites[c].selected
            /\ T.visibleCardNames \subseteq names
            /\ \A key \in DOMAIN T.cardStacks : SeqToSet(T.cardStacks[key]) \subseteq names
            /\ DOMAIN T.cardStacks = {T.cardSprites[c].gridKey : c \in names}
            /\ ~ T.dragState.isDragging
            /\ T.dragState.draggedCards = {}
            /\ DOMAIN T.dragState.cardStartPositions = {}
            /\ ~ T.selectionBox.isActive

\* C18: for every deck and collection, a card whose quantity over mainboard,
\* sideboard and avatar is q > 0 and whose collection quantity is k gets, with
\* a non-empty collection, white when q < k, black when q = k and red when
\* q > k; with an empty collection it gets white; the maybeboard does not
\* count; and a shown overlay has the quantity q in that colour.
C18_OverlayColour ==
    \A deck \in Decks, collection \in Collections, c \in CardsOf(stage) :
        LET q == SumQuantity(deck.mainboard \o deck.sideboard \o deck.avatar, c)
            k == collectionQuantities(collection, c)
            color == quantityColor(deckQuantities(deck, c), k, collection # <<>>)
            d == updateDeckOverlays(stage, deck, collection).cardSprites[c]
        IN  /\ deckQuantities(deck, c) = q
            /\ (collection # <<>> /\ q > 0) =>
                    color = IF q < k THEN "white" ELSE IF q = k THEN "black" ELSE "red"
            /\ collection = <<>> => color = "white"
            /\ d.overlayVisible = (q > 0)
            /\ q > 0 => d.quantityText = q /\ d.quantityFill = color

\* the place of the i-th card of the list in the scene built from it
PlaceOf(i) == stage.cardSprites[stage.cards[i].name].basePosition

\* the cells of the i-th card: 2 x 3 for a portrait card, 3 x 2 for a landscape one
FootprintOf(i) ==
    LET landscape == stage.cardSprites[stage.cards[i].name].isLandscape
    IN  [left |-> PlaceOf(i).x, top |-> PlaceOf(i).y,
         right |-> PlaceOf(i).x + (IF landscape THEN 3 ELSE 2) * GRID_UNIT,
         bottom |-> PlaceOf(i).y + (IF landscape THEN 2 ELSE 3) * GRID_UNIT]

GroupRank(i) ==
    IndexOf(<<"air", "earth", "fire", "water", "multiple", "none">>, stage.cards[i].thresholdGroup)

TypeRank(i) == IndexOf(<<"Minion", "Magic", "Aura", "Artifact", "Site">>, stage.cards[i].type)

NonAvatars == {i \in DOMAIN stage.cards : stage.cards[i].type # "Avatar"}

\* C19: in the scene built from a list, every non-avatar card has a place;
\* a card of an earlier threshold group (air, earth, fire, water, multiple,
\* none) lies wholly left of a card of a later one and every group has a card
\* at y = 0 and none above; in a group, a card of an earlier type (Minion,
\* Magic, Aura, Artifact, Site) lies wholly above a card of a later one; in a
\* bucket, a card of smaller cost, or of equal cost and earlier in the list,
\* comes first in row-major order.
C19_LayoutOrder ==
    (stage.isInitialized /\ stage.cards # <<>>) =>
        /\ \A i \in NonAvatars : stage.cards[i].name \in CardsOf(stage) /\ PlaceOf(i).y >= 0
        /\ \A i \in NonAvatars : \E j \in NonAvatars :
                GroupRank(j) = GroupRank(i) /\ PlaceOf(j).y = 0
        /\ \A i, j \in NonAvatars :
              /\ GroupRank(i) < GroupRank(j) => FootprintOf(i).right <= FootprintOf(j).left
              /\ (GroupRank(i) = GroupRank(j) /\ TypeRank(i) < TypeRank(j))
                    => FootprintOf(i).bottom <= FootprintOf(j).top
              /\ ( /\ GroupRank(i) = GroupRank(j) /\ TypeRank(i) = TypeRank(j)
                   /\ \/ stage.cards[i].cost < stage.cards[j].cost
                      \/ stage.cards[i].cost = stage.cards[j].cost /\ i < j )
                    => \/ PlaceOf(i).y < PlaceOf(j).y
                       \/ PlaceOf(i).y = PlaceOf(j).y /\ PlaceOf(i).x < PlaceOf(j).x

\* a bucket of sites with equal and different costs that fills more than a row
C19_Witness ==
    /\ stage.isInitialized
    /\ Len(stage.cards) = CARDS_PER_ROW_SITE + 1
    /\ \E i \in NonAvatars : PlaceOf(i).y > 0
    /\ \E i, j \in NonAvatars : i < j /\ stage.cards[i].cost > stage.cards[j].cost
    /\ \E i, j \in NonAvatars : i < j /\ stage.cards[i].cost = stage.cards[j].cost

\* C20: in the scene built from a list, the footprints of two different cards
\* of the same threshold group and type share no cell.
C20_FootprintsDisjoint ==
    (stage.isInitialized /\ stage.cards # <<>>) =>
        \A i, j \in DOMAIN stage.cards :
            ( /\ i # j
              /\ stage.cards[i].thresholdGroup = stage.cards[j].thresholdGroup
              /\ stage.cards[i].type = stage.cards[j].type )
            => \/ FootprintOf(i).right <= FootprintOf(j).left
               \/ FootprintOf(j).right <= FootprintOf(i).left
               \/ FootprintOf(i).bottom <= FootprintOf(j).top
               \/ FootprintOf(j).bottom <= FootprintOf(i).top

\* a bucket of spells that fills more than a row
C20_Witness ==
    /\ stage.isInitialized
    /\ Len(stage.cards) = CARDS_PER_ROW_SPELL + 1
    /\ \E i, j \in DOMAIN stage.cards : i # j /\ PlaceOf(i).x = PlaceOf(j).x

\* the copies of a name on a board
CopiesOf(board, name) == Copies(SelectSeq(board, LAMBDA c : c.name = name))

\* C21: no board of any deck holds an entry of quantity below 1; removing a
\* card whose entry on the active board has quantity 1 leaves no entry of it
\* there; removing a card that has no entry on the active board leaves, on
\* every board of every deck, the copies of every card as they were.
C21_QuantitiesStayPositive ==
    /\ \A id \in DOMAIN app.decks, b \in BoardNames :
            \A i \in DOMAIN app.decks[id][b] : app.decks[id][b][i].quantity >= 1
    /\ \A name \in {"A", "B"} :
            LET R == appReducer(app, [type |-> "REMOVE_CARD_FROM_DECK", cardName |-> name])
                active == app.loaded /\ app.activeDeckId \in DOMAIN app.decks
                on == active /\ CopiesOf(app.decks[app.activeDeckId][app.activeBoard], name) > 0
            IN  /\ (on /\ CopiesOf(app.decks[app.activeDeckId][app.activeBoard], name) = 1)
                      => \A i \in DOMAIN R.decks[app.activeDeckId][app.activeBoard] :
                            R.decks[app.activeDeckId][app.activeBoard][i].name # name
                /\ ~ on => \A id \in DOMAIN app.decks, b \in BoardNames, n \in {"A", "B"} :
                            CopiesOf(R.decks[id][b], n) = CopiesOf(app.decks[id][b], n)

\* the removal of a last copy has just deleted an entry and left another
C21_Witness ==
    /\ lastOp.ev = "REMOVE_CARD_FROM_DECK"
    /\ lastOp.branch = "deleted"
    /\ app.decks[app.activeDeckId][app.activeBoard] # <<>>

\* what the listeners are told by a camera method, against the zoom and bounds
\* in effect before it: onZoomChange on every change of zoom and never with
\* the zoom in effect, onViewportChange on every change of the visible bounds
\* and never without one
ToldOfChanges(out) ==
    /\ out.camera.currentZoom # camera.currentZoom => out.zoom = out.camera.currentZoom
    /\ out.zoom # 0 => out.zoom # camera.currentZoom
    /\ out.camera.view # camera.view <=> out.viewport

\* C22: the zoom-change notification is delivered on every change of zoom
\* and never with the zoom already in effect; the viewport-change
\* notification on every change of the visible bounds and never otherwise.
C22_NotifiedOnChangeOnly ==
    /\ \A scale \in Zooms : scale # camera.scale => ToldOfChanges(viewportZoomed(camera, scale))
    /\ \A dx \in Pans : ToldOfChanges(viewportMoved(camera, dx))
    /\ \A screen \in Screens :
            screen # camera.screen => ToldOfChanges(handleResize(camera, screen))
    /\ \A bounds \in Contents : ToldOfChanges(fitToContent(camera, bounds, 100))

\* C23: a slug is in at most one of cache, loadingPromises and failedLoads.
C23_OneCacheState ==
    \A slug \in Slugs :
        /\ ~ (slug \in lod.cache /\ slug \in lod.loadingPromises)
        /\ ~ (slug \in lod.cache /\ slug \in lod.failedLoads)
        /\ ~ (slug \in lod.loadingPromises /\ slug \in lod.failedLoads)

\* a load has just settled into the cache while another slug is loading and
\* a third has failed
C23_Witness ==
    /\ \E r \in lod.settled : r.role = "starter" /\ r.slug \in lod.cache
    /\ lod.loadingPromises # {}
    /\ lod.failedLoads # {}

\* the mode the handlers act in: onPointerMove and onPointerUp serve the
\* selection box first, the card drag second
Mode(T) ==
    IF T.selectionBox.isActive THEN "BoxSelecting"
    ELSE IF T.dragState.isDragging THEN "DraggingCards"
    ELSE "Idle"

\* the pointer-down on card c would be the second click of a double-click
SecondClick(c) ==
    /\ c # NoCard
    /\ Now - stage.lastClickTime < DOUBLE_CLICK_TIME_MS
    /\ stage.lastClickedCard = c

\* C24: a left pointer-down without modifiers, not a double-click, on empty
\* space or on an unselected card leaves exactly the clicked card selected
\* (nothing when no card was hit), the machine in BoxSelecting and the
\* camera's drag paused.
C24_PlainDownSelectsAndStartsBox ==
    \A e \in Plain(Events(ClickPoints, {0})) :
        LET c == getCardAtPosition(stage, e.pos)
            out == onPointerDown(stage, camera, e)
        IN  (~ SecondClick(c) /\ c \notin stage.selectedCards)
            => /\ out.stage.selectedCards = (IF c = NoCard THEN {} ELSE {c})
               /\ \A d \in CardsOf(out.stage) :
                      out.stage.cardSprites[d].selected <=> d = c
               /\ Mode(out.stage) = "BoxSelecting"
               /\ out.camera.dragPaused

\* a plain press on an unselected card has made it the only selected card
\* and started the box, while the camera's drag was not paused before
C24_Witness ==
    /\ lastOp.ev = "down"
    /\ lastOp.branch = "select"
    /\ stage.selectedCards = {"B"}
    /\ stage.selectionBox.isActive
    /\ camera.dragPaused
    /\ ~ stage.dragState.isDragging

\* card d of stage R is drawn where it is in stage T
SamePlace(T, R, d) ==
    /\ R.cardSprites[d].x = T.cardSprites[d].x
    /\ R.cardSprites[d].y = T.cardSprites[d].y

\* card d of stage R is drawn where it is in stage T, shifted by the way from
\* `from` to `to`
Carried(T, R, d, from, to) ==
    /\ R.cardSprites[d].x = T.cardSprites[d].x + (to.x - from.x)
    /\ R.cardSprites[d].y = T.cardSprites[d].y + (to.y - from.y)

\* the pointer-down e starts a drag of the whole selection, and the next two
\* pointer-moves carry the dragged cards and no others
DragsSelection(e) ==
    LET out == onPointerDown(stage, camera, e)
    IN  /\ Mode(out.stage) = "DraggingCards"
        /\ out.stage.dragState.draggedCards = stage.selectedCards
        /\ out.stage.selectedCards = stage.selectedCards
        /\ out.camera.dragPaused
        /\ \A m1, m2 \in Plain(Events(ClickPoints, {0})) :
              LET first == onPointerMove(out.stage, out.camera, m1)
                  second == onPointerMove(first.stage, first.camera, m2)
              IN  \A d \in CardsOf(stage) :
                      IF d \in stage.selectedCards
                      THEN /\ Carried(out.stage, first.stage, d, e.pos, m1.pos)
                           /\ Carried(out.stage, second.stage, d, e.pos, m2.pos)
                      ELSE /\ SamePlace(out.stage, first.stage, d)
                           /\ SamePlace(out.stage, second.stage, d)

\* C25: a left pointer-down without modifiers on a selected card enters
\* DraggingCards, not BoxSelecting, with the whole selection dragged, the
\* selection unchanged and the camera's drag paused; after each following
\* pointer-move every dragged card is at its start position plus the
\* pointer's way since the drag began, unsnapped, and no other card has moved.
C25_PlainDownOnSelectedDrags ==
    \A e \in Plain(Events(ClickPoints, {0})) :
        getCardAtPosition(stage, e.pos) \in stage.selectedCards => DragsSelection(e)

\* C26: a left pointer-down with ctrl or cmd held leaves the machine in
\* BoxSelecting with the camera's drag paused, on empty space, on an
\* unselected card and on a selected card, with or without shift.
C26_CtrlDownStartsBox ==
    \A e \in Events(ClickPoints, {0}) :
        LET out == onPointerDown(stage, camera, e)
        IN  e.ctrlKey => Mode(out.stage) = "BoxSelecting" /\ out.camera.dragPaused

\* the handler's outcome leaves the selection, the box, the drag, the place of
\* every card and the stacking buckets as they are
GestureUntouched(out) ==
    /\ out.stage.selectedCards = stage.selectedCards
    /\ out.stage.selectionBox = stage.selectionBox
    /\ out.stage.dragState = stage.dragState
    /\ Mode(out.stage) = Mode(stage)
    /\ out.stage.cardSprites = stage.cardSprites
    /\ out.stage.cardStacks = stage.cardStacks

\* C27: a right pointer-down and a right pointer-up leave the selection, the
\* active mode (no box or drag started or ended), the cards' positions and the
\* stacking buckets as they were, with any modifiers and in any mode.
C27_RightButtonFrame ==
    \A e \in Events(ClickPoints, {2}) :
        /\ GestureUntouched(onPointerDown(stage, camera, e))
        /\ GestureUntouched(onPointerUp(stage, camera, e))

\* a right pointer-up has come in the middle of a drag of a selected card
C27_Witness ==
    /\ lastOp.ev = "up"
    /\ lastOp.button = 2
    /\ stage.dragState.isDragging
    /\ stage.selectedCards # {}
    /\ \E c \in stage.dragState.draggedCards :
          stage.cardSprites[c].x # stage.dragState.cardStartPositions[c].x

\* the points in the middle of the cards, where they are drawn
CardCentres == {CentreOf(stage.cardSprites[c].bounds) : c \in CardsOf(stage)}

\* stage R has card c at the front of the bucket that holds it in stage T: the
\* bucket is T's without c, then c; its cards are placed by their index and
\* c has the greatest z-index
AtFront(T, R, c) ==
    LET key == T.cardSprites[c].gridKey
        before == T.cardStacks[key]
        after == R.cardStacks[key]
        n == Len(after)
    IN  /\ after = Append(SelectSeq(before, LAMBDA d : d # c), c)
        /\ \A i \in 1 .. n :
              LET d == R.cardSprites[after[i]]
              IN  /\ d.zIndex = i - 1
                  /\ d.x = d.basePosition.x
                  /\ d.y = StackedSprite(d, i - 1, n).y
        /\ \A i \in 1 .. n - 1 : R.cardSprites[after[i]].zIndex < R.cardSprites[c].zIndex

\* C28: a left pointer-down (of a pointer that is up) that is not a
\* double-click, on a card whose bucket holds more than one card, puts that card last in the bucket's order, keeps
\* the order of the bucket's other cards and re-applies offsets and z-indices,
\* the clicked card getting the highest z-index, with or without shift or ctrl.
C28_ClickBringsToFront ==
    \A e \in Events(CardCentres, {0}) :
        LET c == getCardAtPosition(stage, e.pos)
        IN  (/\ ~ pointer.held
             /\ c # NoCard
             /\ ~ SecondClick(c)
             /\ stage.cardSprites[c].gridKey \in DOMAIN stage.cardStacks
             /\ c \in SeqToSet(stage.cardStacks[stage.cardSprites[c].gridKey])
             /\ Len(stage.cardStacks[stage.cardSprites[c].gridKey]) > 1)
            => AtFront(stage, onPointerDown(stage, camera, e).stage, c)

\* a press has just brought a card of a stack of three to the front, ahead of
\* cards that come after it in the order of the card list
C28_Witness ==
    /\ lastOp.ev = "down"
    /\ stage.lastClickedCard # NoCard
    /\ LET key == stage.cardSprites[stage.lastClickedCard].gridKey
       IN  /\ key \in DOMAIN stage.cardStacks
           /\ Len(stage.cardStacks[key]) = 3
           /\ stage.cardStacks[key][3] = stage.lastClickedCard
           /\ stage.cardStacks[key] # StackAt(stage, key)

\* the cards of stage T of which some point lies in the view widened by the
\* culling margin on every side
InMargin(T, view) ==
    {c \in CardsOf(T) :
        LET b == T.cardSprites[c].bounds
        IN  /\ b.right >= view.left - 300
            /\ b.left <= view.right + 300
            /\ b.bottom >= view.top - 300
            /\ b.top <= view.bottom + 300}

\* the last step ran a culling pass
PassRan ==
    \/ lastOp.ev = "viewport" /\ lastOp.branch = "culled"
    \/ lastOp.ev = "timer"
    \/ lastOp.ev = "setCards"

\* the culling pass on stage T hands over exactly the cards it turns visible
HandsOverRevealed(T) ==
    LET pass == performCulling(T, camera)
    IN  /\ SeqToSet(pass.cardsToLoad) =
              {c \in CardsOf(T) : ~ T.cardSprites[c].visible /\ pass.stage.cardSprites[c].visible}
        /\ Len(pass.cardsToLoad) = Cardinality(SeqToSet(pass.cardsToLoad))

\* C29: after a culling pass the visible cards are exactly those whose bounds
\* meet the camera's visible bounds widened by 300, every card's visible flag
\* says whether it is one of them, and the pass hands to preloadTextures
\* exactly the cards it turned from hidden to visible.
C29_CullingPass ==
    /\ PassRan =>
          /\ stage.visibleCardNames = InMargin(stage, camera.view)
          /\ \A c \in CardsOf(stage) :
                stage.cardSprites[c].visible <=> c \in stage.visibleCardNames
    /\ HandsOverRevealed(stage)
    /\ \A layout \in Layouts : HandsOverRevealed(rebuildCardSprites(stage, layout))

\* the deferred pass has hidden one of two cards: it lies outside the view
\* and its margin, the other one inside the margin only
C29_Witness ==
    /\ lastOp.ev = "timer"
    /\ lastOp.branch = "changed"
    /\ stage.visibleCardNames = {"B"}
    /\ CardsOf(stage) = {"A", "B"}
    /\ stage.cardSprites["B"].bounds.right < camera.view.left

\* this step runs a culling pass
PassStep == stage'.lastCullingUpdate = Now /\ PassRan'

\* C30: culling passes triggered by viewport changes are at least
\* CULLING_THROTTLE_MS apart, at most one deferred pass is pending at a time,
\* and no change is lost: when no pass is pending the visible cards are those
\* of the current bounds, and a pending pass runs in the end.
C30_ThrottledAndNotLost ==
    /\ [][PassStep => Now - stage.lastCullingUpdate >= CULLING_THROTTLE_MS]_vars
    /\ [](Len(stage.cullingTimers) <= 1)
    /\ [](stage.cullingTimers = <<>> =>
              /\ ~ stage.cullingScheduled
              /\ stage.visibleCardNames = InMargin(stage, camera.view))
    /\ (stage.cullingTimers # <<>>) ~> (stage.cullingTimers = <<>> /\ lastOp.ev = "timer")

\* the deferred pass has just run, less than the throttle interval after the
\* viewport change that asked for it, and has hidden a card
C30_Witness ==
    /\ lastOp.ev = "timer"
    /\ lastOp.branch = "changed"
    /\ stage.lastCullingUpdate = Now
    /\ stage.visibleCardNames # CardsOf(stage)

\* C31: before initialization completes setCards only queues: nothing is
\* built and no camera exists; the step that completes initialization builds
\* the list supplied last, once, and nothing if none was supplied; once
\* destroy() has come before that, initialization never completes, no list is
\* ever built and no camera is created.
C31_QueuedUntilInitialized ==
    /\ [](~ stage.isInitialized => stage.builds = <<>> /\ ~ stage.hasCamera)
    /\ [][(~ stage.isInitialized /\ stage'.isInitialized)
            => /\ stage'.builds = stage.supplied
               /\ stage'.cards = (IF stage.supplied = <<>> THEN <<>> ELSE stage.supplied[1])
               /\ stage'.pendingCards = <<>>
               /\ stage'.hasCamera]_vars
    /\ [][(stage.isDestroyed /\ ~ stage.isInitialized)
            => ~ stage'.isInitialized /\ stage'.builds = <<>> /\ ~ stage'.hasCamera]_vars

\* initialization has completed after two setCards calls and built the
\* second list, which differs from the first
C31_Witness ==
    /\ lastOp.ev = "initialize"
    /\ lastOp.branch = "ready"
    /\ Len(stage.builds) = 1
    /\ Len(stage.builds[1]) = 2
    /\ stage.supplied = stage.builds
    /\ CardsOf(stage) = {"A", "B"}

\* destroy() came first: initialization has resumed and dropped the queued list
C31_WitnessDestroyed ==
    /\ lastOp.ev = "initialize"
    /\ lastOp.branch = "dropped"
    /\ stage.pendingCards # <<>>

\* the handler's outcome is no change: the selection, the sprites, the
\* buckets, the mode, the camera's pause and the record of the last click are
\* as before, and no notification is made
NoOp(out) ==
    /\ out.stage.selectedCards = stage.selectedCards
    /\ out.stage.cardSprites = stage.cardSprites
    /\ out.stage.cardStacks = stage.cardStacks
    /\ Mode(out.stage) = Mode(stage)
    /\ out.camera.dragPaused = camera.dragPaused
    /\ out.stage.lastClickTime = stage.lastClickTime
    /\ out.stage.lastClickedCard = stage.lastClickedCard
    /\ out.notify.kind = "none"

\* C32: a pointer-up that follows no pointer-down, and a pointer-move while
\* Idle, change neither the selection, the card positions, the buckets, the
\* mode, the camera's pause nor the record that later double-click detection
\* reads, and make no notification.
C32_StrayEventsAreNoOps ==
    \A e \in Events(ClickPoints, {0, 2}) :
        /\ ~ pointer.held => NoOp(onPointerUp(stage, camera, e))
        /\ Mode(stage) = "Idle" => NoOp(onPointerMove(stage, camera, e))

\* the card's type and threshold group are values of CardType and ThresholdGroup
Known(card) ==
    /\ card.type \in AllTypes
    /\ card.thresholdGroup \in SeqToSet(THRESHOLD_GROUP_ORDER)

\* the list initialize() lays out, before and after it has done so
GivenCards == IF stage.isInitialized THEN stage.cards ELSE stage.pendingCards

\* C33 as stated: calculateCardLayout leaves out a card whose type or threshold group is
\* not a known value, and has every other card of its input, avatars
\* included, exactly once; the output is as long as the input has cards of
\* known type and group (none for the empty list), and those are the cards
\* the scene is built of.
C33_UnknownKindsLeftOut ==
    LET out == calculateCardLayout(GivenCards)
    IN  /\ \A i \in DOMAIN GivenCards :
              Len(SelectSeq(out, LAMBDA entry : entry.name = GivenCards[i].name))
                  = (IF Known(GivenCards[i]) THEN 1 ELSE 0)
        /\ Len(out) = Len(SelectSeq(GivenCards, Known))
        /\ stage.isInitialized =>
              CardsOf(stage) = {GivenCards[i].name : i \in {j \in DOMAIN GivenCards : Known(GivenCards[j])}}

\* the card is an avatar, or of a known type and a known threshold group
Placed(card) == card.type = "Avatar" \/ Known(card)

\* C33 amended: calculateCardLayout leaves out a card that is no avatar and
\* whose type or threshold group is not a known value; it has every avatar,
\* whatever its threshold group, and every other card of known type and
\* group exactly once, and nothing else; those are the cards the scene is
\* built of.
C33_UnknownKindsLeftOutButAvatars ==
    LET out == calculateCardLayout(GivenCards)
    IN  /\ \A i \in DOMAIN GivenCards :
              Len(SelectSeq(out, LAMBDA entry : entry.name = GivenCards[i].name))
                  = (IF Placed(GivenCards[i]) THEN 1 ELSE 0)
        /\ Len(out) = Len(SelectSeq(GivenCards, Placed))
        /\ stage.isInitialized =>
              CardsOf(stage) = {GivenCards[i].name : i \in {j \in DOMAIN GivenCards : Placed(GivenCards[j])}}

\* the scene has been built of a card of unknown type and an avatar of
\* unknown threshold group: only the avatar is in it
C33_Witness ==
    /\ lastOp.ev = "initialize"
    /\ Len(stage.cards) = 2
    /\ stage.cards[1].type = "Relic"
    /\ stage.cards[2].type = "Avatar"
    /\ stage.cards[2].thresholdGroup = "void"
    /\ CardsOf(stage) = {"B"}

(***************************************************************************)
(* Texture tiers. stage.currentLOD is each CardSprite's currentLOD and     *)
(* stage.texture the tier of its last loadTexture; stage.hovered is the    *)
(* card the pointer is over. Two cards lie far apart, so that a zoomed-in  *)
(* view holds one of them or none.                                         *)
(***************************************************************************)
THUMBNAIL_MAX == 100
MEDIUM_MAX == 400

getLODForZoom(zoom) ==
    IF zoom < THUMBNAIL_MAX THEN "thumbnail"
    ELSE IF zoom < MEDIUM_MAX THEN "medium"
    ELSE "full"

updateLOD(T, c, zoom) ==
    IF getLODForZoom(zoom) # T.currentLOD[c]
    THEN [T EXCEPT !.currentLOD[c] = getLODForZoom(zoom),
                   !.texture[c] = getLODForZoom(zoom)]
    ELSE T

\* PixiStage.handleZoomChange, the camera's onZoomChange
onZoomChange(T, zoom) ==
    [T EXCEPT !.currentLOD = [c \in CardsOf(T) |->
                    IF c \in T.visibleCardNames THEN updateLOD(T, c, zoom).currentLOD[c]
                    ELSE @[c]],
              !.texture = [c \in CardsOf(T) |->
                    IF c \in T.visibleCardNames THEN updateLOD(T, c, zoom).texture[c]
                    ELSE @[c]]]

onPointerOver(T, c) == [T EXCEPT !.texture[c] = "full", !.hovered = c]

onPointerOut(T, c) == [T EXCEPT !.texture[c] = T.currentLOD[c], !.hovered = NoCard]

FarApart == <<SpriteData("A", 0, 0, FALSE), SpriteData("B", 30 * GRID_UNIT, 0, FALSE)>>

FarBounds == [left |-> 0, top |-> 0,
              right |-> BoundsAt(30 * GRID_UNIT, 0, FALSE).right,
              bottom |-> BoundsAt(0, 0, FALSE).bottom]

\* the scene rebuildCardSprites leaves once the fit's animation has ended:
\* new sprites at the thumbnail tier, the camera on the whole content
InitTier ==
    /\ lod = InitLod
    /\ preloads = [p \in 1 .. MaxPreloads |-> <<>>]
    /\ failedSinceClear = {}
    /\ revealed = 0
    /\ stage = [currentLOD |-> [c \in {"A", "B"} |-> "thumbnail"],
                texture |-> [c \in {"A", "B"} |-> "thumbnail"],
                hovered |-> NoCard] @@ StageOf(FarApart)
    /\ camera = viewportAnimated(fitToContent(
                    [dragPaused |-> FALSE, view |-> WholeView, destroyed |-> FALSE,
                     currentZoom |-> INITIAL_ZOOM, scale |-> INITIAL_ZOOM,
                     screen |-> [width |-> 100, height |-> 60], animation |-> NoAnimation],
                    FarBounds, 100).camera).camera
    /\ pointer = [held |-> FALSE, rightCard |-> NoCard,
                  rightTime |-> 0 - DOUBLE_CLICK_TIME_MS]
    /\ lastOp = InitOp
    /\ app = initialAppState

\* the camera tells the scene of a zoom and of a viewport change, in the
\* order Camera.handleZoomChange calls them
CameraTells(ev, out) ==
    LET T == IF out.zoom # 0 THEN onZoomChange(stage, out.zoom) ELSE stage
    IN  /\ camera' = out.camera
        /\ IF T.cullingScheduled
           THEN stage' = T /\ UNCHANGED <<lod, preloads>>
           ELSE IF Now - T.lastCullingUpdate >= CULLING_THROTTLE_MS
           THEN Cull(T, out.camera, FALSE)
           ELSE /\ stage' = [T EXCEPT
                                !.cullingScheduled = TRUE,
                                !.cullingTimers =
                                    Append(@, timerDelay(Now - T.lastCullingUpdate))]
                /\ UNCHANGED <<lod, preloads>>
        /\ lastOp' = SceneOp(ev, IF out.zoom # 0 THEN "zoom+viewport" ELSE "viewport")
        /\ UNCHANGED <<pointer, app, failedSinceClear, revealed>>

TierZooms == {50, 200}
TierPans == {0 - 600, 600}
TierRange == 600

ZoomTo(scale) == scale # camera.scale /\ CameraTells("zoomed", viewportZoomed(camera, scale))

PanBy(dx) ==
    /\ CentreX(camera.view) - CentreX(FarBounds) + dx \in (0 - TierRange) .. TierRange
    /\ CameraTells("moved", viewportMoved(camera, dx))

\* the pointer comes over a card that is shown, and leaves it
PointerOver(c) ==
    /\ stage.hovered = NoCard
    /\ stage.cardSprites[c].visible
    /\ stage' = onPointerOver(stage, c)
    /\ lastOp' = SceneOp("pointerover", c)
    /\ UNCHANGED <<camera, pointer, app>>
    /\ UNCHANGED lodVars

PointerOut(c) ==
    /\ stage.hovered = c
    /\ stage' = onPointerOut(stage, c)
    /\ lastOp' = SceneOp("pointerout", c)
    /\ UNCHANGED <<camera, pointer, app>>
    /\ UNCHANGED lodVars

NextTier ==
    \/ \E scale \in TierZooms : ZoomTo(scale)
    \/ \E dx \in TierPans : PanBy(dx)
    \/ CullingTimer
    \/ Tick(TimeStep)
    \/ \E c \in {"A", "B"} : PointerOver(c)
    \/ \E c \in {"A", "B"} : PointerOut(c)

SpecTier == InitTier /\ [][NextTier]_vars

\* C34: when the pointer has just left a card its texture is of the tier of
\* the camera's zoom, and while no culling pass is owed every card in view
\* has the tier of the camera's zoom as its current tier, whether or not it
\* was in view when the zoom last changed.
C34_TierFollowsZoom ==
    /\ lastOp.ev = "pointerout" =>
            stage.texture[lastOp.branch] = getLODForZoom(camera.currentZoom)
    /\ ~ stage.cullingScheduled =>
            \A c \in stage.visibleCardNames :
                stage.currentLOD[c] = getLODForZoom(camera.currentZoom)

\* content of a few pixels, of a screenful and of a very large collection
FitBounds == Contents \cup {[left |-> 0, top |-> 0, right |-> 10, bottom |-> 10],
                            [left |-> 0 - 300, top |-> 100, right |-> 505, bottom |-> 365]}

\* a scale brought into the zoom limits
Clamped(scale) ==
    IF scale < MIN_ZOOM THEN MIN_ZOOM ELSE IF scale > MAX_ZOOM THEN MAX_ZOOM ELSE scale

\* C35: fitToContent(bounds, padding) animates to the smaller of
\* screenWidth / (boundsWidth + 2 padding) and screenHeight / (boundsHeight
\* + 2 padding), brought into [MIN_ZOOM, MAX_ZOOM], and to the centre of the
\* bounds; the zoom it records and the zoom it notifies are that scale and
\* lie within [MIN_ZOOM, MAX_ZOOM].
C35_FitWithinZoomLimits ==
    \A bounds \in FitBounds, padding \in {0, 100} :
        LET out == fitToContent(camera, bounds, padding)
            sx == (camera.screen.width * 1000) \div (bounds.right - bounds.left + 2 * padding)
            sy == (camera.screen.height * 1000) \div (bounds.bottom - bounds.top + 2 * padding)
            target == Clamped(IF sx < sy THEN sx ELSE sy)
        IN  /\ out.camera.animation.scale = target
            /\ 2 * out.camera.animation.x \in {bounds.left + bounds.right - 1,
                                               bounds.left + bounds.right}
            /\ 2 * out.camera.animation.y \in {bounds.top + bounds.bottom - 1,
                                               bounds.top + bounds.bottom}
            /\ out.camera.currentZoom = target
            /\ out.zoom = target
            /\ out.zoom \in MIN_ZOOM .. MAX_ZOOM

\* a fit of the very large content has ended on the lower zoom limit, and a
\* fit of a few pixels without padding would end on the upper one
C35_Witness ==
    /\ lastOp.ev = "fitToContent"
    /\ camera.currentZoom = MIN_ZOOM
    /\ camera.animation.scale = MIN_ZOOM
    /\ fitToContent(camera, [left |-> 0, top |-> 0, right |-> 10, bottom |-> 10], 0).zoom
            = MAX_ZOOM

\* the pointer's cumulative delta as updateCardDrag last applied it to card c
DragDelta(T, c) ==
    [x |-> T.cardSprites[c].x - T.dragState.cardStartPositions[c].x,
     y |-> T.cardSprites[c].y - T.dragState.cardStartPositions[c].y]

WholeCells(d) == d.x % GRID_UNIT = 0 /\ d.y % GRID_UNIT = 0

\* this step is a pointer-up that ends the card drag
DragEnds ==
    /\ stage.dragState.isDragging
    /\ ~ stage'.dragState.isDragging
    /\ lastOp'.ev = "up"

\* C36: when a card drag ends whose delta is a whole number of grid units
\* on both axes (a zero delta included), every dragged card's base position
\* is its base position before the drag plus the delta, so that a zero
\* delta changes no base position and no bucket, and dragged cards that
\* shared a bucket share one afterwards.
C36_DragMovesBaseByDelta ==
    [][DragEnds =>
        \A c \in stage.dragState.draggedCards \cap CardsOf(stage) :
            WholeCells(DragDelta(stage, c)) =>
                /\ stage'.cardSprites[c].basePosition =
                        [x |-> stage.cardSprites[c].basePosition.x + DragDelta(stage, c).x,
                         y |-> stage.cardSprites[c].basePosition.y + DragDelta(stage, c).y]
                /\ DragDelta(stage, c) = [x |-> 0, y |-> 0] =>
                        stage'.cardSprites[c].gridKey = stage.cardSprites[c].gridKey
                /\ \A d \in stage.dragState.draggedCards \cap CardsOf(stage) :
                        stage.cardSprites[d].gridKey = stage.cardSprites[c].gridKey =>
                            stage'.cardSprites[d].gridKey = stage'.cardSprites[c].gridKey]_vars

\* in this step the bucket of cell key loses or gains a dragged card, or
\* holds one that is put back into it
LosesOrGains(key) ==
    \E c \in stage.dragState.draggedCards \cap CardsOf(stage) :
        stage.cardSprites[c].gridKey = key \/ stage'.cardSprites[c].gridKey = key

\* C37: a drag end leaves every bucket that neither loses nor gains a
\* dragged card with the members and the front-to-back order it had, an
\* order made by an earlier click-to-front included.
C37_DragEndKeepsOtherBuckets ==
    [][DragEnds =>
        \A key \in DOMAIN stage.cardStacks :
            ~ LosesOrGains(key) =>
                /\ key \in DOMAIN stage'.cardStacks
                /\ stage'.cardStacks[key] = stage.cardStacks[key]]_vars

\* the last pointer event was a right click on card c, less than 300 ms ago
JustRightClicked(c) ==
    /\ lastOp.ev = "up" /\ lastOp.button = 2
    /\ pointer.rightCard = c
    /\ Now - pointer.rightTime < DOUBLE_CLICK_TIME_MS

\* the last pointer event was a left button press on card c, less than 300 ms ago
JustLeftClicked(c) ==
    /\ lastOp.ev = "down" /\ lastOp.button = 0 /\ lastOp.branch # "empty"
    /\ stage.lastClickedCard = c
    /\ Now - stage.lastClickTime < DOUBLE_CLICK_TIME_MS

\* C38: add-to-deck is notified only by a left click and remove-from-deck
\* only by a right click, each only as the second of two clicks of its own
\* button on the card: a left click on a card that was right-clicked just
\* before, within 300 ms, notifies nothing, and neither does a right click
\* on a card that was left-clicked just before.
C38_MixedClicksNotifyNothing ==
    /\ \A e \in Events(ClickPoints, {0, 2}) :
          LET c == getCardAtPosition(stage, e.pos)
              out == onPointerDown(stage, camera, e)
          IN  /\ out.notify.kind \in {"none", "add"}
              /\ out.notify.kind = "add" => e.button = 0 /\ out.notify.card = c
              /\ c # NoCard /\ JustRightClicked(c) => out.notify.kind = "none"
    /\ \A e \in Plain(Events(ClickPoints, {0, 2})) :
          LET c == getCardAtPosition(stage, e.pos)
              out == onPointerUp(stage, camera, e)
          IN  /\ out.notify.kind \in {"none", "remove"}
              /\ out.notify.kind = "remove" => e.button = 2 /\ out.notify.card = c
              /\ c # NoCard /\ JustLeftClicked(c) => out.notify.kind = "none"

(***************************************************************************)
(* The cache with a history of clearCache: lastOp.stale holds the slugs    *)
(* whose load was in flight at the last clearCache and that no getTexture  *)
(* or preloadTextures call has named since.                                *)
(***************************************************************************)
InitClear ==
    /\ lod = InitLod
    /\ preloads = [p \in 1 .. MaxPreloads |-> <<>>]
    /\ failedSinceClear = {}
    /\ revealed = 0
    /\ stage = InitStage
    /\ camera = [dragPaused |-> FALSE, view |-> WholeView, destroyed |-> FALSE,
                 currentZoom |-> INITIAL_ZOOM, scale |-> INITIAL_ZOOM,
                 screen |-> [width |-> 100, height |-> 60], animation |-> NoAnimation]
    /\ pointer = [held |-> FALSE, rightCard |-> NoCard,
                  rightTime |-> 0 - DOUBLE_CLICK_TIME_MS]
    /\ lastOp = [ev |-> "cache", stale |-> {}]
    /\ app = initialAppState

\* the slugs a step names are no longer stale
Named(slugs) ==
    /\ lastOp' = [lastOp EXCEPT !.stale = @ \ slugs]
    /\ UNCHANGED <<stage, camera, pointer, app>>

ClearCacheInFlight ==
    /\ ClearCache
    /\ lastOp' = [lastOp EXCEPT !.stale = InFlight(lod)]
    /\ UNCHANGED <<stage, camera, pointer, app>>

NextClear ==
    \/ \E key \in Keys(1 .. NumSlugs) : GetTextureCall(key) /\ Named({SlugOfArgument(key)})
    \/ \E ids \in SUBSET (1 .. NumSlugs) : PreloadCall(NamesOf(ids)) /\ Named(ids)
    \/ \E slug \in 1 .. NumSlugs : LoadSucceeds(slug) /\ Named({slug})
    \/ \E slug \in 1 .. NumSlugs : LoadFails(slug) /\ Named({slug})
    \/ ClearCacheInFlight

SpecClear == InitClear /\ [][NextClear]_vars

\* C39: a load that was in flight when clearCache ran does not put its slug
\* into the cache or into the failed set when it completes: a slug becomes
\* resident or failed only if a getTexture or preload call has asked for it
\* since the last clearCache.
C39_ClearedLoadsStayOut ==
    [][\A s \in Slugs :
            s \in (lod'.cache \ lod.cache) \cup (lod'.failedLoads \ lod.failedLoads)
                => s \notin lastOp.stale]_vars

(***************************************************************************)
(* Selection while the deck overlays are refreshed: clicks, shift-clicks   *)
(* and boxes on a scene whose card list is replaced and whose overlays are *)
(* updated at any time.                                                    *)
(***************************************************************************)
SelectDecks ==
    {[mainboard |-> <<>>, sideboard |-> <<>>, avatar |-> <<>>, maybeboard |-> <<>>],
     [mainboard |-> <<[name |-> "A", quantity |-> 1]>>, sideboard |-> <<>>,
      avatar |-> <<>>, maybeboard |-> <<>>]}

SelectCollections == {<<>>, <<[name |-> "B", quantity |-> 1]>>}

NextSelect ==
    \/ \E e \in Events(ViewPoints, {0}) : Press(e)
    \/ \E e \in Plain(Events(ViewPoints, {0})) : Release(e)
    \/ Tick(TimeStep)
    \/ \E layout \in Layouts : SetCards(layout)
    \/ \E deck \in SelectDecks, collection \in SelectCollections :
            UpdateDeckOverlays(deck, collection)

SpecSelect == InitEmpty /\ [][NextSelect]_vars

\* the cards whose selection outline is shown
Outlined(T) == {c \in CardsOf(T) : T.cardSprites[c].selected}

\* C40: in every state the cards whose selection outline is shown are the
\* cards of the selection set, and a refresh of the deck overlays changes
\* neither the selection set nor any card's outline.
C40_OutlineIsSelection ==
    /\ [](Outlined(stage) = stage.selectedCards)
    /\ [][lastOp'.ev = "overlays" =>
            /\ stage'.selectedCards = stage.selectedCards
            /\ Outlined(stage') = Outlined(stage)]_vars

\* the overlays were refreshed while a card was selected and another was not
C40_Witness ==
    /\ lastOp.ev = "overlays"
    /\ stage.selectedCards = {"A"}
    /\ stage.cardSprites["A"].selected
    /\ stage.cardSprites["A"].overlayVisible
    /\ "B" \in CardsOf(stage)
    /\ ~ stage.cardSprites["B"].selected

====
